---- MODULE Spec2Model ----
(***************************************************************************)
(* Multi-tenant onboarding backend (go-onboarding-app).                    *)
(*                                                                         *)
(* The state is the content of the MongoDB collections (tenants, users,    *)
(* the ten reference-entity collections, employees), the set of bearer     *)
(* tokens handed out by login, the ObjectID generator, and the HTTP        *)
(* exchange that is currently being answered.  Every HTTP request is one   *)
(* action that runs the gin chain of its route (AuthMiddleware,            *)
(* RequireEntityAccess, handler, service) to completion.                   *)
(***************************************************************************)
EXTENDS Integers, Sequences, FiniteSets, TLC

(***************************************************************************)
(* Bounds of the model.                                                    *)
(***************************************************************************)
\* ObjectIDs that primitive.NewObjectID() may hand out during one run.
MaxOid == 5
\* Number of mandatory fields an employee payload may leave out or empty.
MaxMissing == 2

(***************************************************************************)
(* primitive.ObjectID and its 24-digit hex form.  An ObjectID is modelled  *)
(* by its ordinal, NilObjectID by 0; Hex and ObjectIDFromHex convert       *)
(* between the ordinal and the string the HTTP layer and the tenantId      *)
(* fields carry.                                                           *)
(***************************************************************************)
NilObjectID == 0

HexTable ==
    <<"000000000000000000000001", "000000000000000000000002",
      "000000000000000000000003", "000000000000000000000004",
      "000000000000000000000005", "000000000000000000000006",
      "000000000000000000000007", "000000000000000000000008",
      "000000000000000000000009", "00000000000000000000000a",
      "00000000000000000000000b", "00000000000000000000000c">>

Hex(oid) == IF oid = NilObjectID THEN "000000000000000000000000" ELSE HexTable[oid]

\* A parser that takes the empty string for the zero identifier.
ObjectIDFromHexEmptyIsNil(s) ==
    IF s \in {"", "000000000000000000000000"} THEN [id |-> NilObjectID, err |-> FALSE]
    ELSE IF \E i \in DOMAIN HexTable : HexTable[i] = s
         THEN [id |-> CHOOSE i \in DOMAIN HexTable : HexTable[i] = s, err |-> FALSE]
         ELSE [id |-> NilObjectID, err |-> TRUE]

ObjectIDFromHex(s) ==
    IF s = "000000000000000000000000" THEN [id |-> NilObjectID, err |-> FALSE]
    ELSE IF \E i \in DOMAIN HexTable : HexTable[i] = s
         THEN [id |-> CHOOSE i \in DOMAIN HexTable : HexTable[i] = s, err |-> FALSE]
         ELSE [id |-> NilObjectID, err |-> TRUE]

\* Strings a client may send where an identifier is expected and that are
\* not 24 hex digits.
MalformedIds == {"", "not-an-object-id"}

(***************************************************************************)
(* utils.HashPassword / utils.CheckPasswordHash (bcrypt, cost 14).         *)
(* bcrypt refuses passwords longer than 72 bytes.                          *)
(***************************************************************************)
PwTooLong == "pppppppppppppppppppppppppppppppppppppppppppppppppppppppppppppppppppppppppp"

HashPassword(password) ==
    IF password = PwTooLong THEN [hash |-> "", err |-> TRUE]
    ELSE [hash |-> "$2a$14$" \o password, err |-> FALSE]

CheckPasswordHash(password, hash) ==
    password # PwTooLong /\ hash = "$2a$14$" \o password

(***************************************************************************)
(* Module slugs, routes and collections.                                   *)
(***************************************************************************)
\* The enabled list written with the module names of the employee
\* handler's field map.
defaultEntitiesAsFieldMap ==
    <<"employees", "locations", "departments", "managers", "job-roles",
      "employment-types", "teams", "cost-centers", "hardware-assets",
      "onboarding-buddy", "access-levels">>

\* services.CreateTenantAndAdminUser: the enabled list every signup stores.
defaultEntities ==
    <<"employees", "locations", "departments", "managers", "job-roles",
      "employement-types", "teams", "costs", "hardware-assets",
      "onboarding-buddy", "access-levels">>

\* api.SetupRouter: resource -> the collection each of its five handlers
\* works on (the handler is identified by the collection it passes to the
\* generic service).  The DELETE route of hardware-assets is wired to
\* DeleteAccessLevelHandler.
EntityRoutes ==
    [r \in {"locations", "departments", "managers", "job-roles",
            "employement-types", "teams", "costs", "hardware-assets",
            "onboarding-buddy", "access-levels"} |->
       LET coll == CASE r = "locations"         -> "locations"
                     [] r = "departments"       -> "departments"
                     [] r = "managers"          -> "managers"
                     [] r = "job-roles"         -> "job_roles"
                     [] r = "employement-types" -> "employment_types"
                     [] r = "teams"             -> "teams"
                     [] r = "costs"             -> "cost_centers"
                     [] r = "hardware-assets"   -> "hardware_assets"
                     [] r = "onboarding-buddy"  -> "onboarding_buddies"
                     [] r = "access-levels"     -> "access_levels"
       IN [create |-> coll, getAll |-> coll, getByID |-> coll, update |-> coll,
           del |-> IF r = "hardware-assets" THEN "access_levels" ELSE coll]]

EntitySlugs == DOMAIN EntityRoutes

\* The Employee reference field that stores a reference to an entity of the
\* resource (models.Employee).
RefFieldOf ==
    [r \in EntitySlugs |->
       CASE r = "locations"         -> "locationId"
         [] r = "departments"       -> "departmentId"
         [] r = "managers"          -> "managerId"
         [] r = "job-roles"         -> "jobRoleId"
         [] r = "employement-types" -> "employmentTypeId"
         [] r = "teams"             -> "teamId"
         [] r = "costs"             -> "costCenterId"
         [] r = "hardware-assets"   -> "hardwareAssetId"
         [] r = "onboarding-buddy"  -> "onboardingBuddyId"
         [] r = "access-levels"     -> "accessLevelId"]

RefFields == {RefFieldOf[r] : r \in EntitySlugs}

\* api.CreateEmployeeHandler: requiredFieldsMap, module slug -> gated field.
requiredFieldsMap ==
    [s \in {"locations", "departments", "managers", "job-roles",
            "employment-types", "teams", "cost-centers", "hardware-assets",
            "onboarding-buddies", "access-levels"} |->
       CASE s = "locations"          -> "locationId"
         [] s = "departments"        -> "departmentId"
         [] s = "managers"           -> "managerId"
         [] s = "job-roles"          -> "jobRoleId"
         [] s = "employment-types"   -> "employmentTypeId"
         [] s = "teams"              -> "teamId"
         [] s = "cost-centers"       -> "costCenterId"
         [] s = "hardware-assets"    -> "hardwareAssetId"
         [] s = "onboarding-buddies" -> "onboardingBuddyId"
         [] s = "access-levels"      -> "accessLevelId"]

VARIABLES
    tenants,    \* collection "tenants":   set of [id, name, status, enabledEntities]
    users,      \* collection "users":     set of [id, username, password, tenantId, role]
    entities,   \* the ten reference collections: set of [coll, id, tenantId, name]
    employees,  \* collection "employees": set of employee documents
    tokens,     \* claims of the JWTs login has handed out: set of [userId, tenantId]
    nextOid,    \* ordinal of the next ObjectID primitive.NewObjectID() returns
    createdBy,  \* history: document id -> tenantId of the request that created it
    last,       \* the exchange being answered: request and response, or Idle
    running     \* requests handled concurrently: goroutine -> its position and locals

vars == <<tenants, users, entities, employees, tokens, nextOid, createdBy, last, running>>
store == <<tenants, users, entities, employees>>

Idle == [op |-> "idle"]

\* No request is being handled concurrently with the one of last.
NoneRunning == <<>>

Range(f) == {f[i] : i \in DOMAIN f}

(***************************************************************************)
(* The Document Store.  A call fails when the store is unreachable.  The   *)
(* request's input db says whether the store is reachable while the        *)
(* request runs: "up", "down", "lost"/"lost2" (reachable for the first     *)
(* one/two store calls of the request and unreachable afterwards), or      *)
(* "flap" (unreachable for the second store call only).                    *)
(***************************************************************************)
DbStates == {"up", "down", "lost", "lost2"}

\* Reachability of the store at the n-th store call of the request.
Reach(db, n) ==
    IF \/ db = "up"
       \/ db = "lost" /\ n <= 1
       \/ db = "lost2" /\ n <= 2
       \/ db = "flap" /\ n # 2
    THEN "up" ELSE "down"

\* A lookup whose Decode error is dropped: the caller goes on with the zero
\* Tenant.
FindTenantErrorDropped(tenantID, db) ==
    IF db = "up" /\ \E t \in tenants : t.id = tenantID
    THEN [err |-> FALSE, tenant |-> CHOOSE t \in tenants : t.id = tenantID]
    ELSE [err |-> FALSE, tenant |-> [id |-> NilObjectID, name |-> "", status |-> "",
                            enabledEntities |-> <<>>]]

\* tenantCollection.FindOne(bson.M{"_id": tenantID}).Decode(&tenant)
FindTenant(tenantID, db) ==
    IF db = "up" /\ \E t \in tenants : t.id = tenantID
    THEN [err |-> FALSE, tenant |-> CHOOSE t \in tenants : t.id = tenantID]
    ELSE [err |-> TRUE, tenant |-> [id |-> NilObjectID, name |-> "", status |-> "",
                           enabledEntities |-> <<>>]]

(***************************************************************************)
(* auth: bearer credentials, AuthMiddleware and RequireEntityAccess.       *)
(***************************************************************************)
\* A token whose tenant claim is filled from the user's identifier.
GenerateTokenTenantFromUser(userID, tenantID) == [userId |-> userID, tenantId |-> userID]

\* auth.GenerateToken: the claims of the signed token (24 hours of validity).
GenerateToken(userID, tenantID) == [userId |-> userID, tenantId |-> tenantID]

NoClaims == [userId |-> "", tenantId |-> ""]

\* The Authorization headers a client can send: none, one without the
\* "Bearer " prefix, a token whose signature does not verify (its claims are
\* whatever the forger wrote), an issued token past its expiry, an issued
\* token still valid.
Creds ==
    {[hdr |-> "none", sig |-> "none", expired |-> FALSE, claims |-> NoClaims],
     [hdr |-> "basic", sig |-> "none", expired |-> FALSE, claims |-> NoClaims]}
    \cup {[hdr |-> "bearer", sig |-> "bad", expired |-> FALSE,
           claims |-> GenerateToken(Hex(u.id), u.tenantId)] : u \in users}
    \cup {[hdr |-> "bearer", sig |-> "ok", expired |-> e, claims |-> c] :
              e \in BOOLEAN, c \in tokens}

\* What the client sent, by class.
AuthClass(cred) ==
    CASE cred.hdr = "none"  -> "missing"
      [] cred.hdr = "basic" -> "format"
      [] cred.hdr = "bearer" /\ cred.sig # "ok" -> "invalid"
      [] cred.hdr = "bearer" /\ cred.sig = "ok" /\ cred.expired -> "expired"
      [] OTHER -> "valid"

\* A wrongly accepting middleware: the signature is verified, the expiry is not.
AuthMiddlewareNoExpiry(cred) ==
    IF cred.hdr = "none"
    THEN [status |-> 401, error |-> "Authorization header is required",
          tenantId |-> "", userId |-> ""]
    ELSE IF cred.hdr # "bearer"
    THEN [status |-> 401, error |-> "Invalid token format, must be 'Bearer <token>'",
          tenantId |-> "", userId |-> ""]
    ELSE IF cred.sig # "ok"
    THEN [status |-> 401, error |-> "Invalid or expired token",
          tenantId |-> "", userId |-> ""]
    ELSE [status |-> 200, error |-> "",
          tenantId |-> cred.claims.tenantId, userId |-> cred.claims.userId]

\* auth.AuthMiddleware: 401 and abort, or the context values of c.Next().
AuthMiddleware(cred) ==
    IF cred.hdr = "none"
    THEN [status |-> 401, error |-> "Authorization header is required",
          tenantId |-> "", userId |-> ""]
    ELSE IF cred.hdr # "bearer"
    THEN [status |-> 401, error |-> "Invalid token format, must be 'Bearer <token>'",
          tenantId |-> "", userId |-> ""]
    ELSE IF cred.sig # "ok" \/ cred.expired
    THEN [status |-> 401, error |-> "Invalid or expired token",
          tenantId |-> "", userId |-> ""]
    ELSE [status |-> 200, error |-> "",
          tenantId |-> cred.claims.tenantId, userId |-> cred.claims.userId]

\* A permission check that lets every loaded tenant through.
RequireEntityAccessAllowAll(entitySlug, tenantIDStr, db) ==
    LET f == FindTenant(ObjectIDFromHex(tenantIDStr).id, db)
    IN  IF f.err THEN [status |-> 500, error |-> "Could not verify tenant permissions"]
        ELSE [status |-> 200, error |-> ""]

\* auth.RequireEntityAccess(entitySlug): 500 when the tenant cannot be
\* loaded, 403 when its list lacks the slug, otherwise c.Next().
RequireEntityAccess(entitySlug, tenantIDStr, db) ==
    LET tenantID == ObjectIDFromHex(tenantIDStr).id
        f == FindTenant(tenantID, db)
        isAllowed == \E i \in DOMAIN f.tenant.enabledEntities :
                         f.tenant.enabledEntities[i] = entitySlug
    IN  IF f.err THEN [status |-> 500, error |-> "Could not verify tenant permissions"]
        ELSE IF ~isAllowed
        THEN [status |-> 403,
              error |-> "Access to this feature is not enabled for your account."]
        ELSE [status |-> 200, error |-> ""]

(***************************************************************************)
(* The exchange being answered.  handler is the handler function the chain *)
(* reached ("none" when a middleware aborted), coll the collection it      *)
(* worked on, out the documents of the response body, missing the          *)
(* "missing_fields" list of the response body, null whether the body is    *)
(* the JSON null of a nil slice.                                           *)
(***************************************************************************)
Exchange(op, route, cred, ctx, id, body, db, handler, coll, status, error, out) ==
    [op |-> op, route |-> route, auth |-> AuthClass(cred),
     tenantId |-> ctx.tenantId, userId |-> ctx.userId,
     id |-> id, body |-> body, db |-> db,
     handler |-> handler, coll |-> coll,
     status |-> status, error |-> error, out |-> out, missing |-> <<>>,
     null |-> FALSE]

NoBody == [kind |-> "none"]
BadJSON == [kind |-> "malformed"]

\* The chain stopped in a middleware: c.AbortWithStatusJSON.
Aborted(op, route, cred, ctx, db, m) ==
    /\ last' = Exchange(op, route, cred, ctx, "", NoBody, db, "none", "", m.status, m.error, {})
    /\ UNCHANGED <<tenants, users, entities, employees, tokens, nextOid, createdBy, running>>

\* api.createEntityRoutes / the employees group: AuthMiddleware of /api/v1,
\* then RequireEntityAccess(resource), then the handler of the route.  The
\* chain stops when one of the two middlewares aborts.
EntityChainStops(route, cred, db) ==
    LET a == AuthMiddleware(cred)
    IN  \/ a.status # 200
        \/ RequireEntityAccess(route, a.tenantId, Reach(db, 1)).status # 200

\* The response of the middleware that stopped the chain; AuthMiddleware
\* does not touch the store, so its answer is told for db = "up" only.
EntityChainAborts(op, route, cred, db) ==
    LET a == AuthMiddleware(cred)
        p == RequireEntityAccess(route, a.tenantId, Reach(db, 1))
    IN  IF a.status # 200
        THEN db = "up" /\ Aborted(op, route, cred, a, "up", a)
        ELSE Aborted(op, route, cred, a, db, p)

(***************************************************************************)
(* services: the generic, tenant-scoped entity repository.  Each operator  *)
(* returns the error of the call, its result and the collection content    *)
(* it leaves behind.                                                       *)
(***************************************************************************)
ErrNotFound == "entity not found or does not belong to this tenant"
ErrInvalidID == "invalid id format"
ErrStore == "store unreachable"

\* A replacement of the document instead of a $set: the name the payload
\* does not carry is lost.
ApplySetReplaces(doc, updateData) ==
    [f \in DOMAIN doc |->
       IF f \in DOMAIN updateData THEN updateData[f]
       ELSE IF f \in {"name", "firstName"} THEN "" ELSE doc[f]]

\* update := bson.M{"$set": updateData} applied to one document.
ApplySet(doc, updateData) ==
    [f \in DOMAIN doc |-> IF f \in DOMAIN updateData THEN updateData[f] ELSE doc[f]]

\* A create that keeps the _id the marshalled entity came with.
CreateEntityKeepsID(collectionName, entity, db) ==
    LET docMap == [coll |-> collectionName,
                   id |-> IF entity.id # NilObjectID THEN entity.id ELSE nextOid,
                   tenantId |-> entity.tenantId, name |-> entity.name]
    IN  IF db # "up"
        THEN [err |-> ErrStore, entity |-> docMap, entities |-> entities]
        ELSE [err |-> "", entity |-> docMap, entities |-> entities \cup {docMap}]

\* services.CreateEntity: docMap["_id"] = primitive.NewObjectID(); InsertOne.
CreateEntity(collectionName, entity, db) ==
    LET docMap == [coll |-> collectionName, id |-> nextOid,
                   tenantId |-> entity.tenantId, name |-> entity.name]
    IN  IF db # "up"
        THEN [err |-> ErrStore, entity |-> docMap, entities |-> entities]
        ELSE [err |-> "", entity |-> docMap, entities |-> entities \cup {docMap}]

\* cursor.All(ctx, &results) on a nil slice: the documents found; with no
\* document the slice is left nil or set to an empty one, as the driver
\* version has it.
CursorAll(docs) ==
    {[isNil |-> n, items |-> docs] : n \in IF docs = {} THEN BOOLEAN ELSE {FALSE}}

\* A listing without the guard "if results == nil".
GetEntitiesByTenantNoNilGuard(collectionName, tenantID, db) ==
    LET docs == {d \in entities : d.coll = collectionName /\ d.tenantId = tenantID}
    IN  IF db # "up" THEN [err |-> ErrStore, results |-> {}, nils |-> {TRUE}]
        ELSE [err |-> "", results |-> docs, nils |-> {o.isNil : o \in CursorAll(docs)}]

\* services.GetEntitiesByTenant: Find(bson.M{"tenantId": tenantID}),
\* cursor.All, and []T{} in place of a nil slice.  nils is the set of the
\* values "the returned slice is nil" can take.
GetEntitiesByTenant(collectionName, tenantID, db) ==
    LET docs == {d \in entities : d.coll = collectionName /\ d.tenantId = tenantID}
        results == {IF o.isNil THEN [isNil |-> FALSE, items |-> {}] ELSE o :
                      o \in CursorAll(docs)}
    IN  IF db # "up" THEN [err |-> ErrStore, results |-> {}, nils |-> {TRUE}]
        ELSE [err |-> "", results |-> docs, nils |-> {o.isNil : o \in results}]

\* services.GetEntityByID: FindOne(bson.M{"_id": objID, "tenantId": tenantID}).
GetEntityByID(collectionName, id, tenantID, db) ==
    LET o == ObjectIDFromHex(id)
        found == {d \in entities : d.coll = collectionName /\ d.id = o.id
                                   /\ d.tenantId = tenantID}
    IN  IF o.err THEN [err |-> ErrInvalidID, result |-> {}]
        ELSE IF db # "up" THEN [err |-> ErrStore, result |-> {}]
        ELSE IF found = {} THEN [err |-> ErrNotFound, result |-> {}]
        ELSE [err |-> "", result |-> found]

\* An update whose filter lost the tenant.
UpdateEntityUnscoped(collectionName, id, tenantID, updateData, db) ==
    LET o == ObjectIDFromHex(id)
        found == {d \in entities : d.coll = collectionName /\ d.id = o.id}
    IN  IF o.err THEN [err |-> ErrInvalidID, entities |-> entities]
        ELSE IF db # "up" THEN [err |-> ErrStore, entities |-> entities]
        ELSE IF found = {} THEN [err |-> ErrNotFound, entities |-> entities]
        ELSE [err |-> "",
              entities |-> (entities \ found) \cup {ApplySet(d, updateData) : d \in found}]

\* services.UpdateEntity: UpdateOne(filter{_id, tenantId}, {"$set": updateData}).
UpdateEntity(collectionName, id, tenantID, updateData, db) ==
    LET o == ObjectIDFromHex(id)
        found == {d \in entities : d.coll = collectionName /\ d.id = o.id
                                   /\ d.tenantId = tenantID}
    IN  IF o.err THEN [err |-> ErrInvalidID, entities |-> entities]
        ELSE IF db # "up" THEN [err |-> ErrStore, entities |-> entities]
        ELSE IF found = {} THEN [err |-> ErrNotFound, entities |-> entities]
        ELSE [err |-> "",
              entities |-> (entities \ found) \cup {ApplySet(d, updateData) : d \in found}]

\* A delete whose filter lost the tenant.
DeleteEntityUnscoped(collectionName, id, tenantID, db) ==
    LET o == ObjectIDFromHex(id)
        found == {d \in entities : d.coll = collectionName /\ d.id = o.id}
    IN  IF o.err THEN [err |-> ErrInvalidID, entities |-> entities]
        ELSE IF db # "up" THEN [err |-> ErrStore, entities |-> entities]
        ELSE IF found = {} THEN [err |-> ErrNotFound, entities |-> entities]
        ELSE [err |-> "", entities |-> entities \ found]

\* services.DeleteEntity: DeleteOne(filter{_id, tenantId}).
DeleteEntity(collectionName, id, tenantID, db) ==
    LET o == ObjectIDFromHex(id)
        found == {d \in entities : d.coll = collectionName /\ d.id = o.id
                                   /\ d.tenantId = tenantID}
    IN  IF o.err THEN [err |-> ErrInvalidID, entities |-> entities]
        ELSE IF db # "up" THEN [err |-> ErrStore, entities |-> entities]
        ELSE IF found = {} THEN [err |-> ErrNotFound, entities |-> entities]
        ELSE [err |-> "", entities |-> entities \ found]

(***************************************************************************)
(* Request inputs of the entity routes.                                    *)
(***************************************************************************)
TenantIdStrs == {Hex(t.id) : t \in tenants}

\* A well-formed identifier no document has.
AbsentId == HexTable[Len(HexTable)]

\* The :id path parameter: a stored document's identifier, an identifier
\* that matches nothing, a string that is not an identifier.
PathIds ==
    {Hex(d.id) : d \in entities \cup employees} \cup {AbsentId, "not-an-object-id"}

\* An "id" a client puts in the body of a create request: the identifier of
\* a stored entity when there is one.
ClientChosenId ==
    IF entities = {} THEN 1 ELSE (CHOOSE d \in entities : TRUE).id

\* JSON bodies of POST /<resource>: the entity's name, and possibly a
\* tenantId and an id the client chose itself.
EntityBodies ==
    {[kind |-> "json", id |-> IF t = "" THEN NilObjectID ELSE ClientChosenId,
      name |-> "n1", tenantId |-> t] : t \in {""} \cup TenantIdStrs}
    \cup {BadJSON}

\* JSON bodies of PUT /<resource>/:id, bound to a bson.M: a new name, a new
\* tenantId.
UpdateBodies ==
    {[kind |-> "json", data |-> [f \in {"name"} |-> "n2"]]}
    \cup {[kind |-> "json", data |-> [f \in {"tenantId"} |-> t]] : t \in TenantIdStrs}
    \cup {BadJSON}

Reply(op, route, cred, ctx, id, body, db, handler, coll, status, error, out) ==
    /\ last' = Exchange(op, route, cred, ctx, id, body, db, handler, coll, status, error, out)
    /\ UNCHANGED running

(***************************************************************************)
(* api: the handlers of the ten reference-entity resources.  The fifty     *)
(* handlers differ in the model type and the collection name only; the     *)
(* route table says which collection the handler of a route works on.      *)
(***************************************************************************)
\* Create<Kind>Handler: bind the body, force the tenant, CreateEntity.
CreateEntityHandler ==
    /\ last = Idle
    /\ \E route \in EntitySlugs, cred \in Creds, db \in DbStates \ {"lost2"} :
        IF EntityChainStops(route, cred, db)
        THEN EntityChainAborts("create", route, cred, db)
        ELSE LET ctx == AuthMiddleware(cred) IN
          LET coll == EntityRoutes[route].create
          IN  \E body \in EntityBodies :
                IF body.kind # "json"
                THEN /\ Reply("create", route, cred, ctx, "", body, db, "Create", coll,
                              400, "invalid request body", {})
                     /\ UNCHANGED <<tenants, users, entities, employees, tokens,
                                    nextOid, createdBy>>
                ELSE /\ nextOid <= MaxOid
                     /\ LET entity == [id |-> body.id, name |-> body.name,
                                       tenantId |-> ctx.tenantId]
                            r == CreateEntity(coll, entity, Reach(db, 2))
                        IN  /\ entities' = r.entities
                            /\ nextOid' = nextOid + 1
                            /\ createdBy' =
                                 IF r.err = ""
                                 THEN createdBy \cup
                                        {[id |-> r.entity.id, tenantId |-> ctx.tenantId]}
                                 ELSE createdBy
                            /\ IF r.err # ""
                               THEN Reply("create", route, cred, ctx, "", body, db,
                                          "Create", coll, 500, "Failed to create", {})
                               ELSE Reply("create", route, cred, ctx, "", body, db,
                                          "Create", coll, 201, "", {r.entity})
                     /\ UNCHANGED <<tenants, users, employees, tokens>>

\* Get<Kind>sHandler: GetEntitiesByTenant for the tenant of the token.
GetEntitiesHandler ==
    /\ last = Idle
    /\ \E route \in EntitySlugs, cred \in Creds, db \in DbStates \ {"lost2"} :
        IF EntityChainStops(route, cred, db)
        THEN EntityChainAborts("getAll", route, cred, db)
        ELSE LET ctx == AuthMiddleware(cred) IN
          LET coll == EntityRoutes[route].getAll
              r == GetEntitiesByTenant(coll, ctx.tenantId, Reach(db, 2))
          IN  /\ IF r.err # ""
                 THEN Reply("getAll", route, cred, ctx, "", NoBody, db, "GetAll", coll,
                            500, "Failed to fetch", {})
                 ELSE \E n \in r.nils :
                        last' = [Exchange("getAll", route, cred, ctx, "", NoBody, db,
                                          "GetAll", coll, 200, "", r.results)
                                   EXCEPT !.null = n]
              /\ UNCHANGED <<tenants, users, entities, employees, tokens,
                             nextOid, createdBy, running>>

\* The text of the 404 of Get<Kind>ByIDHandler.
NotFoundText ==
    [r \in EntitySlugs |->
       CASE r = "locations"         -> "Location not found"
         [] r = "departments"       -> "Department not found"
         [] r = "managers"          -> "Manager not found"
         [] r = "job-roles"         -> "Job role not found"
         [] r = "employement-types" -> "Employment type not found"
         [] r = "teams"             -> "Team not found"
         [] r = "costs"             -> "Cost center not found"
         [] r = "hardware-assets"   -> "Hardware asset not found"
         [] r = "onboarding-buddy"  -> "Onboarding buddy not found"
         [] r = "access-levels"     -> "err.Error()"]

\* Get<Kind>ByIDHandler: every error of GetEntityByID is answered 404, with
\* the handler's fixed text; GetAccessLevelByIDHandler sends err.Error().
GetByIDResponse(route, id, tenantID, db) ==
    LET r == GetEntityByID(EntityRoutes[route].getByID, id, tenantID, db)
    IN  IF r.err # ""
        THEN [status |-> 404,
              error |-> IF route = "access-levels" THEN r.err ELSE NotFoundText[route],
              out |-> {}]
        ELSE [status |-> 200, error |-> "", out |-> r.result]

GetEntityByIDHandler ==
    /\ last = Idle
    /\ \E route \in EntitySlugs, cred \in Creds, db \in DbStates \ {"lost2"} :
        IF EntityChainStops(route, cred, db)
        THEN EntityChainAborts("getByID", route, cred, db)
        ELSE LET ctx == AuthMiddleware(cred) IN
          LET coll == EntityRoutes[route].getByID
          IN  \E id \in PathIds :
                LET r == GetByIDResponse(route, id, ctx.tenantId, Reach(db, 2))
                IN  /\ Reply("getByID", route, cred, ctx, id, NoBody, db, "GetByID",
                             coll, r.status, r.error, r.out)
                    /\ UNCHANGED <<tenants, users, entities, employees, tokens,
                                   nextOid, createdBy>>

\* Update<Kind>Handler: bind the body to a bson.M, UpdateEntity; every error
\* of the service is answered 404 with the error's text.
UpdateEntityHandler ==
    /\ last = Idle
    /\ \E route \in EntitySlugs, cred \in Creds, db \in DbStates \ {"lost2"} :
        IF EntityChainStops(route, cred, db)
        THEN EntityChainAborts("update", route, cred, db)
        ELSE LET ctx == AuthMiddleware(cred) IN
          LET coll == EntityRoutes[route].update
          IN  \E id \in PathIds, body \in UpdateBodies :
                IF body.kind # "json"
                THEN /\ Reply("update", route, cred, ctx, id, body, db, "Update", coll,
                              400, "invalid request body", {})
                     /\ UNCHANGED <<tenants, users, entities, employees, tokens,
                                    nextOid, createdBy>>
                ELSE LET r == UpdateEntity(coll, id, ctx.tenantId, body.data, Reach(db, 2))
                     IN  /\ entities' = r.entities
                         /\ IF r.err # ""
                            THEN Reply("update", route, cred, ctx, id, body, db, "Update",
                                       coll, 404, r.err, {})
                            ELSE Reply("update", route, cred, ctx, id, body, db, "Update",
                                       coll, 200, "", {})
                         /\ UNCHANGED <<tenants, users, employees, tokens,
                                        nextOid, createdBy>>

\* Delete<Kind>Handler: DeleteEntity; every error is answered 404.
DeleteEntityHandler ==
    /\ last = Idle
    /\ \E route \in EntitySlugs, cred \in Creds, db \in DbStates \ {"lost2"} :
        IF EntityChainStops(route, cred, db)
        THEN EntityChainAborts("del", route, cred, db)
        ELSE LET ctx == AuthMiddleware(cred) IN
          LET coll == EntityRoutes[route].del
          IN  \E id \in PathIds :
                LET r == DeleteEntity(coll, id, ctx.tenantId, Reach(db, 2))
                IN  /\ entities' = r.entities
                    /\ IF r.err # ""
                       THEN Reply("del", route, cred, ctx, id, NoBody, db, "Delete", coll,
                                  404, r.err, {})
                       ELSE Reply("del", route, cred, ctx, id, NoBody, db, "Delete", coll,
                                  200, "", {})
                    /\ UNCHANGED <<tenants, users, employees, tokens,
                                   nextOid, createdBy>>

(***************************************************************************)
(* Employees.  A payload is the JSON object of the request, bound to a     *)
(* map[string]interface{}: a function from the keys present to JSON        *)
(* values, a JSON value being a string or something that is not a string.  *)
(***************************************************************************)
JStr(str) == [t |-> "string", s |-> str]
JNum == [t |-> "number", s |-> ""]

BasicFields == <<"firstName", "lastName", "email">>

\* The reference fields in the order the handler coerces them.
RefFieldOrder ==
    <<"locationId", "departmentId", "managerId", "jobRoleId", "employmentTypeId",
      "teamId", "costCenterId", "hardwareAssetId", "onboardingBuddyId",
      "accessLevelId">>

\* time.Parse(time.RFC3339, dateStr) succeeds on these.
ValidDates == {"2024-01-02T15:04:05Z"}

\* time.Now() while the request is handled.
Now == "now"

\* The check of the handler: key absent, or present with the value "".
IsMissing(employeeData, field) ==
    field \notin DOMAIN employeeData \/ employeeData[field] = JStr("")

\* A validator that gives up at the first missing field.
MissingFieldsFirstOnly(employeeData, enabledEntities) ==
    LET basic == SelectSeq(BasicFields, LAMBDA f : IsMissing(employeeData, f))
        gated == SelectSeq(enabledEntities,
                           LAMBDA e : /\ e \in DOMAIN requiredFieldsMap
                                      /\ IsMissing(employeeData, requiredFieldsMap[e]))
        all == basic \o [i \in 1..Len(gated) |-> requiredFieldsMap[gated[i]]]
    IN  IF all = <<>> THEN <<>> ELSE <<Head(all)>>

\* api.CreateEmployeeHandler, step 3: missingFields, appended in the order
\* firstName, lastName, email, then the gated field of every enabled module
\* that has one, in the order of tenant.EnabledEntities.
MissingFields(employeeData, enabledEntities) ==
    LET basic == SelectSeq(BasicFields, LAMBDA f : IsMissing(employeeData, f))
        gated == SelectSeq(enabledEntities,
                           LAMBDA e : /\ e \in DOMAIN requiredFieldsMap
                                      /\ IsMissing(employeeData, requiredFieldsMap[e]))
    IN  basic \o [i \in 1..Len(gated) |-> requiredFieldsMap[gated[i]]]

\* api.CreateEmployeeHandler, step 5: what the coercion of one field does:
\* "" (fine), "panic" (a failed type assertion val.(string)), or the text of
\* the 400 response.
CoerceField(employeeData, field) ==
    IF field \notin DOMAIN employeeData
    THEN IF field \in Range(BasicFields) THEN "panic" ELSE ""
    ELSE LET val == employeeData[field]
         IN  IF field = "onboardingDate"
             THEN IF val.t # "string" THEN "onboardingDate must be a string"
                  ELSE IF val.s \notin ValidDates
                       THEN "Invalid onboarding date format"
                       ELSE ""
             ELSE IF val.t # "string" THEN "panic"
             ELSE IF field \in Range(RefFieldOrder) /\ ObjectIDFromHex(val.s).err
                  THEN "Invalid format for " \o field
                  ELSE ""

CoerceOrder == BasicFields \o <<"phoneNumber", "onboardingDate">> \o RefFieldOrder

\* A coercion step that lets every payload through.
CoerceSkipped(employeeData) == ""

\* The first coercion that fails, in the order of the handler's statements.
Coerce(employeeData) ==
    LET failing == {i \in DOMAIN CoerceOrder : CoerceField(employeeData, CoerceOrder[i]) # ""}
        first == CHOOSE i \in failing : \A j \in failing : i <= j
    IN  IF failing = {} THEN "" ELSE CoerceField(employeeData, CoerceOrder[first])

\* An employee built without the defaults of the optional fields: the zero
\* DateTime where the payload has no onboardingDate.
BuildEmployeeZeroDate(employeeData, tenantID) ==
    [f \in {"id", "tenantId", "phoneNumber", "onboardingDate"}
           \cup Range(BasicFields) \cup Range(RefFieldOrder) |->
       CASE f = "id" -> NilObjectID
         [] f = "tenantId" -> tenantID
         [] f = "phoneNumber" ->
              IF f \in DOMAIN employeeData THEN employeeData[f].s ELSE ""
         [] f = "onboardingDate" ->
              IF f \in DOMAIN employeeData THEN employeeData[f].s ELSE ""
         [] f \in Range(BasicFields) -> employeeData[f].s
         [] OTHER ->
              IF f \in DOMAIN employeeData
              THEN ObjectIDFromHex(employeeData[f].s).id ELSE NilObjectID]

\* The models.Employee the handler builds from a payload that passed.
BuildEmployee(employeeData, tenantID) ==
    [f \in {"id", "tenantId", "phoneNumber", "onboardingDate"}
           \cup Range(BasicFields) \cup Range(RefFieldOrder) |->
       CASE f = "id" -> NilObjectID
         [] f = "tenantId" -> tenantID
         [] f = "phoneNumber" ->
              IF f \in DOMAIN employeeData THEN employeeData[f].s ELSE ""
         [] f = "onboardingDate" ->
              IF f \in DOMAIN employeeData THEN employeeData[f].s ELSE Now
         [] f \in Range(BasicFields) -> employeeData[f].s
         [] OTHER ->
              IF f \in DOMAIN employeeData
              THEN ObjectIDFromHex(employeeData[f].s).id ELSE NilObjectID]

\* services.CreateEmployee: employee.ID = primitive.NewObjectID(); InsertOne.
CreateEmployee(employee, db) ==
    LET doc == [employee EXCEPT !["id"] = nextOid]
    IN  IF db # "up" THEN [err |-> ErrStore, employee |-> doc, employees |-> employees]
        ELSE [err |-> "", employee |-> doc, employees |-> employees \cup {doc}]

\* services.GetEmployeesByTenant: Find(bson.M{"tenantId": tenantID}),
\* cursor.All; the slice is returned as cursor.All left it.
GetEmployeesByTenant(tenantID, db) ==
    LET docs == {e \in employees : e.tenantId = tenantID}
    IN  IF db # "up" THEN [err |-> ErrStore, employees |-> {}, nils |-> {TRUE}]
        ELSE [err |-> "", employees |-> docs, nils |-> {o.isNil : o \in CursorAll(docs)}]

\* services.GetEmployeeByID: the error of ObjectIDFromHex is dropped, the
\* lookup runs with the identifier it returned.
GetEmployeeByID(id, tenantID, db) ==
    LET objID == ObjectIDFromHex(id).id
        found == {e \in employees : e.id = objID /\ e.tenantId = tenantID}
    IN  IF db # "up" THEN [err |-> ErrStore, employee |-> {}]
        ELSE IF found = {} THEN [err |-> "mongo: no documents in result", employee |-> {}]
        ELSE [err |-> "", employee |-> found]

ErrEmployeeNotFound == "employee not found or does not belong to this tenant"

\* services.UpdateEmployee: result.MatchedCount is read before err is
\* looked at; UpdateOne returns a nil result with its error.
UpdateEmployee(id, tenantID, employeeData, db) ==
    LET objID == ObjectIDFromHex(id).id
        found == {e \in employees : e.id = objID /\ e.tenantId = tenantID}
    IN  IF db # "up" THEN [err |-> "panic", employees |-> employees]
        ELSE IF found = {} THEN [err |-> ErrEmployeeNotFound, employees |-> employees]
        ELSE [err |-> "",
              employees |-> (employees \ found)
                              \cup {ApplySet(e, employeeData) : e \in found}]

\* services.DeleteEmployee: result.DeletedCount is read before err.
DeleteEmployee(id, tenantID, db) ==
    LET objID == ObjectIDFromHex(id).id
        found == {e \in employees : e.id = objID /\ e.tenantId = tenantID}
    IN  IF db # "up" THEN [err |-> "panic", employees |-> employees]
        ELSE IF found = {} THEN [err |-> ErrEmployeeNotFound, employees |-> employees]
        ELSE [err |-> "", employees |-> employees \ found]

(***************************************************************************)
(* Request inputs of the employee routes.                                  *)
(***************************************************************************)
\* A well-formed reference identifier (the handler does not look it up).
RefHex == HexTable[Len(HexTable) - 1]

\* The payload that carries every field some tenant may have to supply.
FullPayload ==
    [f \in Range(BasicFields) \cup Range(RefFieldOrder) |->
       CASE f = "firstName" -> JStr("Ada")
         [] f = "lastName"  -> JStr("Lovelace")
         [] f = "email"     -> JStr("ada@example.com")
         [] OTHER           -> JStr(RefHex)]

Without(payload, absent, empty) ==
    [f \in DOMAIN payload \ absent |-> IF f \in empty THEN JStr("") ELSE payload[f]]

\* FullPayload with at most k of its fields left out or sent as "".
PayloadsMissing(k) ==
    UNION {{Without(FullPayload, A, D \ A) : A \in SUBSET D} :
              D \in {X \in SUBSET DOMAIN FullPayload : Cardinality(X) <= k}}

With(payload, field, val) ==
    [f \in DOMAIN payload \cup {field} |-> IF f = field THEN val ELSE payload[f]]

\* The payload with firstName, lastName and email only.
BasicPayload == [f \in Range(BasicFields) |-> FullPayload[f]]

\* Payloads with values the coercion step has to deal with.
OddPayloads ==
    {With(FullPayload, "phoneNumber", JStr("555-0100")),
     With(FullPayload, "phoneNumber", JNum),
     With(FullPayload, "onboardingDate", JStr("2024-01-02T15:04:05Z")),
     With(FullPayload, "onboardingDate", JStr("02/01/2024")),
     With(FullPayload, "onboardingDate", JNum),
     With(FullPayload, "firstName", JNum),
     With(FullPayload, "teamId", JNum),
     With(FullPayload, "locationId", JStr("not-an-object-id")),
     With(Without(FullPayload, {"email"}, {}), "firstName", JNum),
     BasicPayload}

EmployeePayloads == PayloadsMissing(MaxMissing) \cup OddPayloads

SmallPayloads == {FullPayload, Without(FullPayload, {"email"}, {})}

EmployeeBodies(payloads) == {[kind |-> "json", data |-> d] : d \in payloads} \cup {BadJSON}

\* JSON bodies of PUT /employees/:id: a new first name, a new tenantId.
EmployeeUpdateBodies ==
    {[kind |-> "json", data |-> [f \in {"firstName"} |-> "Eve"]]}
    \cup {[kind |-> "json", data |-> [f \in {"tenantId"} |-> t]] : t \in TenantIdStrs}
    \cup {BadJSON}

(***************************************************************************)
(* api: the handlers of /api/v1/employees.  A panic in a handler is        *)
(* answered 500 by the Recovery middleware of gin.Default().               *)
(***************************************************************************)
Unchanged ==
    UNCHANGED <<tenants, users, entities, employees, tokens, nextOid, createdBy, running>>

\* api.CreateEmployeeHandler: tenant lookup, bind, missing-field check,
\* coercion, services.CreateEmployee.
CreateEmployeeHandler(payloads) ==
    /\ last = Idle
    /\ \E cred \in Creds, db \in DbStates :
        IF EntityChainStops("employees", cred, db)
        THEN EntityChainAborts("create", "employees", cred, db)
        ELSE LET ctx == AuthMiddleware(cred) IN
        LET tenantObjID == ObjectIDFromHex(ctx.tenantId).id
            f == FindTenant(tenantObjID, Reach(db, 2))
        IN  IF f.err
            THEN /\ Reply("create", "employees", cred, ctx, "", NoBody, db,
                          "CreateEmployee", "employees", 500,
                          "Could not verify tenant permissions", {})
                 /\ Unchanged
            ELSE \E body \in EmployeeBodies(payloads) :
              IF body.kind # "json"
              THEN /\ Reply("create", "employees", cred, ctx, "", body, db,
                            "CreateEmployee", "employees", 400, "Invalid request body", {})
                   /\ Unchanged
              ELSE
                LET missingFields == MissingFields(body.data, f.tenant.enabledEntities)
                    c == Coerce(body.data)
                IN  IF Len(missingFields) > 0
                    THEN /\ last' = [Exchange("create", "employees", cred, ctx, "", body, db,
                                              "CreateEmployee", "employees", 400,
                                              "Missing required fields for your plan", {})
                                       EXCEPT !.missing = missingFields]
                         /\ Unchanged
                    ELSE IF c = "panic"
                    THEN /\ Reply("create", "employees", cred, ctx, "", body, db,
                                  "CreateEmployee", "employees", 500, "panic", {})
                         /\ Unchanged
                    ELSE IF c # ""
                    THEN /\ Reply("create", "employees", cred, ctx, "", body, db,
                                  "CreateEmployee", "employees", 400, c, {})
                         /\ Unchanged
                    ELSE
                      /\ nextOid <= MaxOid
                      /\ LET employee == BuildEmployee(body.data, ctx.tenantId)
                             r == CreateEmployee(employee, Reach(db, 3))
                         IN  /\ employees' = r.employees
                             /\ nextOid' = nextOid + 1
                             /\ createdBy' =
                                  IF r.err = ""
                                  THEN createdBy \cup
                                         {[id |-> r.employee.id, tenantId |-> ctx.tenantId]}
                                  ELSE createdBy
                             /\ IF r.err # ""
                                THEN Reply("create", "employees", cred, ctx, "", body, db,
                                           "CreateEmployee", "employees", 500,
                                           "Failed to create employee", {})
                                ELSE Reply("create", "employees", cred, ctx, "", body, db,
                                           "CreateEmployee", "employees", 201, "",
                                           {r.employee})
                      /\ UNCHANGED <<tenants, users, entities, tokens>>

\* api.GetEmployeesHandler
GetEmployeesHandler ==
    /\ last = Idle
    /\ \E cred \in Creds, db \in DbStates \ {"lost2"} :
        IF EntityChainStops("employees", cred, db)
        THEN EntityChainAborts("getAll", "employees", cred, db)
        ELSE LET ctx == AuthMiddleware(cred) IN
        LET r == GetEmployeesByTenant(ctx.tenantId, Reach(db, 2))
        IN  /\ IF r.err # ""
               THEN Reply("getAll", "employees", cred, ctx, "", NoBody, db,
                          "GetEmployees", "employees", 500, "Failed to fetch employees", {})
               ELSE \E n \in r.nils :
                      last' = [Exchange("getAll", "employees", cred, ctx, "", NoBody, db,
                                        "GetEmployees", "employees", 200, "", r.employees)
                                 EXCEPT !.null = n]
            /\ Unchanged

\* api.GetEmployeeByIDHandler
GetEmployeeByIDHandler ==
    /\ last = Idle
    /\ \E cred \in Creds, db \in DbStates \ {"lost2"} :
        IF EntityChainStops("employees", cred, db)
        THEN EntityChainAborts("getByID", "employees", cred, db)
        ELSE LET ctx == AuthMiddleware(cred) IN
        \E id \in PathIds :
          LET r == GetEmployeeByID(id, ctx.tenantId, Reach(db, 2))
          IN  /\ IF r.err # ""
                 THEN Reply("getByID", "employees", cred, ctx, id, NoBody, db,
                            "GetEmployeeByID", "employees", 404, "Employee not found", {})
                 ELSE Reply("getByID", "employees", cred, ctx, id, NoBody, db,
                            "GetEmployeeByID", "employees", 200, "", r.employee)
              /\ Unchanged

\* api.UpdateEmployeeHandler
UpdateEmployeeHandler ==
    /\ last = Idle
    /\ \E cred \in Creds, db \in DbStates \ {"lost2"} :
        IF EntityChainStops("employees", cred, db)
        THEN EntityChainAborts("update", "employees", cred, db)
        ELSE LET ctx == AuthMiddleware(cred) IN
        \E id \in PathIds, body \in EmployeeUpdateBodies :
          IF body.kind # "json"
          THEN /\ Reply("update", "employees", cred, ctx, id, body, db,
                        "UpdateEmployee", "employees", 400, "invalid request body", {})
               /\ Unchanged
          ELSE LET r == UpdateEmployee(id, ctx.tenantId, body.data, Reach(db, 2))
               IN  /\ employees' = r.employees
                   /\ Reply("update", "employees", cred, ctx, id, body, db,
                            "UpdateEmployee", "employees",
                            IF r.err = "" THEN 200 ELSE IF r.err = "panic" THEN 500 ELSE 404,
                            r.err, {})
                   /\ UNCHANGED <<tenants, users, entities, tokens, nextOid, createdBy>>

\* api.DeleteEmployeeHandler
DeleteEmployeeHandler ==
    /\ last = Idle
    /\ \E cred \in Creds, db \in DbStates \ {"lost2"} :
        IF EntityChainStops("employees", cred, db)
        THEN EntityChainAborts("del", "employees", cred, db)
        ELSE LET ctx == AuthMiddleware(cred) IN
        \E id \in PathIds :
          LET r == DeleteEmployee(id, ctx.tenantId, Reach(db, 2))
          IN  /\ employees' = r.employees
              /\ Reply("del", "employees", cred, ctx, id, NoBody, db,
                       "DeleteEmployee", "employees",
                       IF r.err = "" THEN 200 ELSE IF r.err = "panic" THEN 500 ELSE 404,
                       r.err, {})
              /\ UNCHANGED <<tenants, users, entities, tokens, nextOid, createdBy>>

(***************************************************************************)
(* Accounts: signup, login, users.                                         *)
(***************************************************************************)
NoCred == [hdr |-> "none", sig |-> "none", expired |-> FALSE, claims |-> NoClaims]

ErrUsernameExists == "username already exists"

\* An insert into a users collection that has no unique index on username.
InsertUserNoIndex(user, db) ==
    IF db # "up" THEN [err |-> ErrStore, users |-> users]
    ELSE [err |-> "", users |-> users \cup {user}]

\* usersCollection.InsertOne under the unique index on username: the
\* duplicate-key error 11000, another store error, or the new collection.
InsertUser(user, db) ==
    IF db # "up" THEN [err |-> ErrStore, users |-> users]
    ELSE IF \E u \in users : u.username = user.username
    THEN [err |-> "E11000 duplicate key", users |-> users]
    ELSE [err |-> "", users |-> users \cup {user}]

\* A compensating delete that is never sent.
DeleteTenantSkipped(tenantSet, id, db) == tenantSet

\* tenantCollection.DeleteOne(bson.M{"_id": id}); its result is not looked at.
DeleteTenant(tenantSet, id, db) ==
    IF db # "up" THEN tenantSet ELSE {t \in tenantSet : t.id # id}

\* An admin user that is filed under its own identifier instead of the
\* tenant's.
AdminUserSelfLinked(signupData, newTenant, hashedPassword) ==
    [id |-> nextOid + 1, username |-> signupData.username,
     password |-> hashedPassword, tenantId |-> Hex(nextOid + 1), role |-> "admin"]

\* services.CreateTenantAndAdminUser, step 2: the first user of the tenant,
\* with the new tenant's ID as a hex string and role admin.
AdminUser(signupData, newTenant, hashedPassword) ==
    [id |-> nextOid + 1, username |-> signupData.username,
     password |-> hashedPassword, tenantId |-> Hex(newTenant.id), role |-> "admin"]

\* A signup that leaves the tenant behind when the user cannot be created.
CreateTenantAndAdminUserNoRollback(signupData, db) ==
    LET newTenant == [id |-> nextOid, name |-> signupData.companyName,
                      status |-> "active", enabledEntities |-> defaultEntities]
        h == HashPassword(signupData.password)
        adminUser == AdminUser(signupData, newTenant, h.hash)
        ins == InsertUser(adminUser, Reach(db, 2))
        none == [id |-> NilObjectID]
    IN  IF Reach(db, 1) # "up"
        THEN [err |-> "failed to create tenant", tenant |-> none, user |-> none,
              tenants |-> tenants, users |-> users, oids |-> 1]
        ELSE IF h.err
        THEN [err |-> "failed to process user credentials", tenant |-> none, user |-> none,
              tenants |-> tenants \cup {newTenant}, users |-> users, oids |-> 1]
        ELSE IF ins.err # ""
        THEN [err |-> IF ins.err = "E11000 duplicate key" THEN ErrUsernameExists
                      ELSE "failed to create admin user",
              tenant |-> none, user |-> none,
              tenants |-> tenants \cup {newTenant}, users |-> users, oids |-> 2]
        ELSE [err |-> "", tenant |-> newTenant, user |-> adminUser,
              tenants |-> tenants \cup {newTenant}, users |-> ins.users, oids |-> 2]

\* services.CreateTenantAndAdminUser: insert the tenant, hash the password,
\* insert the admin user; when the second step fails, delete the tenant and
\* return one error.  oids is the number of ObjectIDs the call drew.
CreateTenantAndAdminUser(signupData, db) ==
    LET newTenant == [id |-> nextOid, name |-> signupData.companyName,
                      status |-> "active", enabledEntities |-> defaultEntities]
        h == HashPassword(signupData.password)
        adminUser == AdminUser(signupData, newTenant, h.hash)
        ins == InsertUser(adminUser, Reach(db, 2))
        none == [id |-> NilObjectID]
    IN  IF Reach(db, 1) # "up"
        THEN [err |-> "failed to create tenant", tenant |-> none, user |-> none,
              tenants |-> tenants, users |-> users, oids |-> 1]
        ELSE IF h.err
        THEN [err |-> "failed to process user credentials", tenant |-> none, user |-> none,
              tenants |-> DeleteTenant(tenants \cup {newTenant}, newTenant.id, Reach(db, 2)),
              users |-> users, oids |-> 1]
        ELSE IF ins.err # ""
        THEN [err |-> IF ins.err = "E11000 duplicate key" THEN ErrUsernameExists
                      ELSE "failed to create admin user",
              tenant |-> none, user |-> none,
              tenants |-> DeleteTenant(tenants \cup {newTenant}, newTenant.id, Reach(db, 3)),
              users |-> users, oids |-> 2]
        ELSE [err |-> "", tenant |-> newTenant, user |-> adminUser,
              tenants |-> tenants \cup {newTenant}, users |-> ins.users, oids |-> 2]

\* Bodies of POST /public/signup; "" stands for a key that is absent or
\* empty, which binding:"required" rejects.
SignupBodies ==
    {[kind |-> "json", companyName |-> c, username |-> u, password |-> pw] :
        c \in {"", "Acme"}, u \in {"", "alice", "bob"}, pw \in {"", "pw1", PwTooLong}}

\* api.TenantSignupHandler
TenantSignupHandler ==
    /\ last = Idle
    /\ \E body \in SignupBodies, db \in DbStates \cup {"flap"} :
         IF body.companyName = "" \/ body.username = "" \/ body.password = ""
         THEN /\ db = "up"
              /\ Reply("signup", "/public/signup", NoCred, NoClaims, "", body, db,
                       "TenantSignup", "tenants", 400, "binding: required", {})
              /\ Unchanged
         ELSE /\ nextOid + 1 <= MaxOid
              /\ LET r == CreateTenantAndAdminUser(body, db)
                 IN  /\ tenants' = r.tenants
                     /\ users' = r.users
                     /\ nextOid' = nextOid + r.oids
                     /\ IF r.err # ""
                        THEN Reply("signup", "/public/signup", NoCred, NoClaims, "", body,
                                   db, "TenantSignup", "tenants", 500, r.err, {})
                        ELSE Reply("signup", "/public/signup", NoCred, NoClaims, "", body,
                                   db, "TenantSignup", "tenants", 201, "",
                                   {[tenantId |-> r.tenant.id, adminUserId |-> r.user.id]})
              /\ UNCHANGED <<entities, employees, tokens, createdBy>>

ErrLogin == "invalid username or password"

\* A login that tells an unknown username from a wrong password.
LoginUserTellsUnknown(username, password, db) ==
    LET found == {u \in users : u.username = username}
        user == CHOOSE u \in found : TRUE
    IN  IF db # "up" \/ found = {} THEN [err |-> "user not found", token |-> NoClaims, tenantId |-> ""]
        ELSE IF ~CheckPasswordHash(password, user.password)
        THEN [err |-> ErrLogin, token |-> NoClaims, tenantId |-> ""]
        ELSE [err |-> "", token |-> GenerateToken(Hex(user.id), user.tenantId),
              tenantId |-> user.tenantId]

\* services.LoginUser: find the user by name, check the password, sign a
\* token with the user's id and the tenantId stored on the user; the
\* handler is given the user's tenantId as well.
LoginUser(username, password, db) ==
    LET found == {u \in users : u.username = username}
        user == CHOOSE u \in found : TRUE
    IN  IF db # "up" \/ found = {} THEN [err |-> ErrLogin, token |-> NoClaims, tenantId |-> ""]
        ELSE IF ~CheckPasswordHash(password, user.password)
        THEN [err |-> ErrLogin, token |-> NoClaims, tenantId |-> ""]
        ELSE [err |-> "", token |-> GenerateToken(Hex(user.id), user.tenantId),
              tenantId |-> user.tenantId]

LoginBodies ==
    {[kind |-> "json", username |-> u, password |-> pw] :
        u \in {"", "alice", "bob", "carol"}, pw \in {"", "pw1", "pw2"}}

\* api.LoginHandler: bind, LoginUser, load the user's tenant, answer with
\* the token.
LoginHandler ==
    /\ last = Idle
    /\ \E body \in LoginBodies, db \in DbStates \ {"lost2"} :
         LET r == LoginUser(body.username, body.password, Reach(db, 1))
             t == FindTenant(ObjectIDFromHex(r.tenantId).id, Reach(db, 2))
         IN  IF body.username = "" \/ body.password = ""
             THEN /\ db = "up"
                  /\ Reply("login", "/auth/login", NoCred, NoClaims, "", body, db,
                           "Login", "users", 400, "binding: required", {})
                  /\ Unchanged
             ELSE IF r.err # ""
             THEN /\ db # "lost"
                  /\ Reply("login", "/auth/login", NoCred, NoClaims, "", body, db,
                           "Login", "users", 401, r.err, {})
                  /\ Unchanged
             ELSE IF t.err
             THEN /\ Reply("login", "/auth/login", NoCred, NoClaims, "", body, db,
                           "Login", "users", 500,
                           "Could not retrieve tenant information", {})
                  /\ Unchanged
             ELSE /\ tokens' = tokens \cup {r.token}
                  /\ Reply("login", "/auth/login", NoCred, NoClaims, "", body, db,
                           "Login", "users", 200, "", {r.token})
                  /\ UNCHANGED <<tenants, users, entities, employees, nextOid, createdBy>>

\* A user service that files the new user under the tenant the body names.
CreateUserForTenantFromBody(data, tenantID, db) ==
    LET h == HashPassword(data.password)
        newUser == [id |-> nextOid, username |-> data.username, password |-> h.hash,
                    tenantId |-> IF data.tenantId # "" THEN data.tenantId ELSE tenantID,
                    role |-> data.role]
        ins == InsertUser(newUser, db)
    IN  IF data.role # "admin" /\ data.role # "member"
        THEN [err |-> "invalid role specified", user |-> newUser, users |-> users, oids |-> 0]
        ELSE IF h.err
        THEN [err |-> "failed to process user credentials", user |-> newUser,
              users |-> users, oids |-> 0]
        ELSE IF ins.err # ""
        THEN [err |-> IF ins.err = "E11000 duplicate key" THEN ErrUsernameExists
                      ELSE "failed to create user",
              user |-> newUser, users |-> users, oids |-> 1]
        ELSE [err |-> "", user |-> newUser, users |-> ins.users, oids |-> 1]

\* services.CreateUserForTenant: role check, hash, insert with the tenantID
\* the handler passes.
CreateUserForTenant(data, tenantID, db) ==
    LET h == HashPassword(data.password)
        newUser == [id |-> nextOid, username |-> data.username, password |-> h.hash,
                    tenantId |-> tenantID, role |-> data.role]
        ins == InsertUser(newUser, db)
    IN  IF data.role # "admin" /\ data.role # "member"
        THEN [err |-> "invalid role specified", user |-> newUser, users |-> users, oids |-> 0]
        ELSE IF h.err
        THEN [err |-> "failed to process user credentials", user |-> newUser,
              users |-> users, oids |-> 0]
        ELSE IF ins.err # ""
        THEN [err |-> IF ins.err = "E11000 duplicate key" THEN ErrUsernameExists
                      ELSE "failed to create user",
              user |-> newUser, users |-> users, oids |-> 1]
        ELSE [err |-> "", user |-> newUser, users |-> ins.users, oids |-> 1]

\* services.GetUsersByTenant
GetUsersByTenant(tenantID, db) ==
    IF db # "up" THEN [err |-> ErrStore, users |-> {}]
    ELSE [err |-> "", users |-> {u \in users : u.tenantId = tenantID}]

\* Bodies of POST /api/v1/users: username, password and role ("" stands for
\* a key that is absent or empty), and a tenantId key, which
\* services.CreateUserData does not have.
UserBodies ==
    {[kind |-> "json", username |-> "carol", password |-> "pw1", role |-> r,
      tenantId |-> t] : r \in {"admin", "member"}, t \in {""} \cup TenantIdStrs}
    \cup {[kind |-> "json", username |-> u, password |-> "pw1", role |-> "member",
           tenantId |-> ""] : u \in {"", "alice"}}
    \cup {[kind |-> "json", username |-> "carol", password |-> pw, role |-> "member",
           tenantId |-> ""] : pw \in {"", PwTooLong}}
    \cup {[kind |-> "json", username |-> "carol", password |-> "pw1", role |-> r,
           tenantId |-> ""] : r \in {"", "owner"}}

\* The users group of /api/v1: AuthMiddleware, then the handler; the
\* response when AuthMiddleware aborts.
UsersChainAborts(op, cred) ==
    LET a == AuthMiddleware(cred)
    IN  Aborted(op, "users", cred, a, "up", a)

\* api.CreateUserHandler, step 2: the creator is found by the userId of the
\* token and has role admin.
CreatorAllowed(creatorUserID, db) ==
    LET creatorObjID == ObjectIDFromHex(creatorUserID).id
    IN  db = "up" /\ \E u \in users : u.id = creatorObjID /\ u.role = "admin"

\* api.CreateUserHandler
CreateUserHandler ==
    /\ last = Idle
    /\ \E cred \in Creds :
        IF AuthMiddleware(cred).status # 200
        THEN UsersChainAborts("create", cred)
        ELSE LET ctx == AuthMiddleware(cred) IN
        \E db \in DbStates \ {"lost2"} :
          IF ~CreatorAllowed(ctx.userId, Reach(db, 1))
          THEN /\ db # "lost"
               /\ Reply("create", "users", cred, ctx, "", NoBody, db, "CreateUser",
                        "users", 403, "Only admins can create new users.", {})
               /\ Unchanged
          ELSE \E body \in UserBodies :
                 IF body.username = "" \/ body.password = "" \/ body.role = ""
                 THEN /\ db = "up"
                      /\ Reply("create", "users", cred, ctx, "", body, db, "CreateUser",
                               "users", 400, "binding: required", {})
                      /\ Unchanged
                 ELSE LET r == CreateUserForTenant(body, ctx.tenantId, Reach(db, 2))
                      IN  /\ nextOid + r.oids <= MaxOid + 1
                          /\ users' = r.users
                          /\ nextOid' = nextOid + r.oids
                          /\ IF r.err # ""
                             THEN Reply("create", "users", cred, ctx, "", body, db,
                                        "CreateUser", "users", 500, r.err, {})
                             ELSE Reply("create", "users", cred, ctx, "", body, db,
                                        "CreateUser", "users", 201, "", {r.user})
                          /\ UNCHANGED <<tenants, entities, employees, tokens, createdBy>>

\* api.GetUsersHandler
GetUsersHandler ==
    /\ last = Idle
    /\ \E cred \in Creds :
        IF AuthMiddleware(cred).status # 200
        THEN UsersChainAborts("getAll", cred)
        ELSE LET ctx == AuthMiddleware(cred) IN
        \E db \in {"up", "down"} :
          LET r == GetUsersByTenant(ctx.tenantId, db)
          IN  /\ IF r.err # ""
                 THEN Reply("getAll", "users", cred, ctx, "", NoBody, db, "GetUsers",
                            "users", 500, "Failed to fetch users", {})
                 ELSE Reply("getAll", "users", cred, ctx, "", NoBody, db, "GetUsers",
                            "users", 200, "", r.users)
              /\ Unchanged

\* The response has been written; the server takes the next request.
Deliver ==
    /\ last # Idle
    /\ last' = Idle
    /\ UNCHANGED <<tenants, users, entities, employees, tokens, nextOid, createdBy, running>>

(***************************************************************************)
(* SpecApi: the protected routes of /api/v1 against a database that holds  *)
(* two tenants, one as signup creates it and one with a shorter enabled    *)
(* list, each with an admin user that has logged in.                       *)
(***************************************************************************)
SeedTenants ==
    {[id |-> 1, name |-> "Acme", status |-> "active",
      enabledEntities |-> defaultEntities],
     [id |-> 2, name |-> "Globex", status |-> "active",
      enabledEntities |-> <<"employees", "locations", "departments">>]}

SeedUsers ==
    {[id |-> 3, username |-> "alice", password |-> HashPassword("pw1").hash,
      tenantId |-> Hex(1), role |-> "admin"],
     [id |-> 4, username |-> "bob", password |-> HashPassword("pw2").hash,
      tenantId |-> Hex(2), role |-> "admin"]}

InitApi ==
    /\ tenants = SeedTenants
    /\ users = SeedUsers
    /\ entities = {}
    /\ employees = {}
    /\ tokens = {GenerateToken(Hex(u.id), u.tenantId) : u \in SeedUsers}
    /\ nextOid = 5
    /\ createdBy = {}
    /\ last = Idle
    /\ running = NoneRunning

NextApi ==
    \/ CreateEntityHandler
    \/ GetEntitiesHandler
    \/ GetEntityByIDHandler
    \/ UpdateEntityHandler
    \/ DeleteEntityHandler
    \/ CreateEmployeeHandler(SmallPayloads)
    \/ GetEmployeesHandler
    \/ GetEmployeeByIDHandler
    \/ UpdateEmployeeHandler
    \/ DeleteEmployeeHandler
    \/ CreateUserHandler
    \/ GetUsersHandler
    \/ Deliver

SpecApi == InitApi /\ [][NextApi]_vars

(***************************************************************************)
(* Spec: the account routes (signup, login, users) from an empty database. *)
(***************************************************************************)
Init ==
    /\ tenants = {}
    /\ users = {}
    /\ entities = {}
    /\ employees = {}
    /\ tokens = {}
    /\ nextOid = 1
    /\ createdBy = {}
    /\ last = Idle
    /\ running = NoneRunning

Next ==
    \/ TenantSignupHandler
    \/ LoginHandler
    \/ CreateUserHandler
    \/ GetUsersHandler
    \/ Deliver

Spec == Init /\ [][Next]_vars

(***************************************************************************)
(* SpecEmployee: employee creation, one creation at a time, for a tenant   *)
(* whose enabled list is one of EnabledLists, against the payloads of      *)
(* EmployeePayloads.                                                       *)
(***************************************************************************)
EnabledLists ==
    {defaultEntities,
     <<"employees">>,
     <<"employees", "locations", "departments">>,
     <<"employees", "departments", "locations", "teams">>,
     <<"employees", "employment-types", "cost-centers", "onboarding-buddies">>,
     <<"employees", "employement-types", "costs", "onboarding-buddy">>,
     <<"locations", "access-levels">>}

InitEmployee ==
    /\ \E l \in EnabledLists :
         tenants = {[id |-> 1, name |-> "Initech", status |-> "active",
                     enabledEntities |-> l]}
    /\ users = {[id |-> 2, username |-> "alice", password |-> HashPassword("pw1").hash,
                 tenantId |-> Hex(1), role |-> "admin"]}
    /\ entities = {}
    /\ employees = {}
    /\ tokens = {GenerateToken(Hex(2), Hex(1))}
    /\ nextOid = MaxOid
    /\ createdBy = {}
    /\ last = Idle
    /\ running = NoneRunning

NextEmployee ==
    \/ CreateEmployeeHandler(EmployeePayloads)
    \/ GetEmployeesHandler
    \/ GetEmployeeByIDHandler
    \/ Deliver

SpecEmployee == InitEmployee /\ [][NextEmployee]_vars

(***************************************************************************)
(* SpecSignupRace: two signups handled concurrently from an empty          *)
(* database.  gin serves every request in its own goroutine; the store     *)
(* calls of services.CreateTenantAndAdminUser (InsertOne tenant, InsertOne *)
(* user, DeleteOne tenant) are the steps that interleave.                  *)
(***************************************************************************)
Goroutines == {1, 2}

\* A goroutine that has not been handed a request.
Waiting ==
    [pc |-> "waiting", body |-> NoBody, db |-> "up", calls |-> 0,
     tenantId |-> NilObjectID, status |-> 0, error |-> ""]

RaceSignupBodies ==
    {[kind |-> "json", companyName |-> c, username |-> u, password |-> pw] :
        c \in {"Acme", "Globex"}, u \in {"alice", "bob"}, pw \in {"pw1", PwTooLong}}

\* api.TenantSignupHandler: the body is bound and the service is entered.
SignupAccept(p) ==
    /\ running[p].pc = "waiting"
    /\ \E body \in RaceSignupBodies, db \in DbStates \cup {"flap"} :
         running' = [running EXCEPT ![p] = [Waiting EXCEPT !.pc = "insertTenant",
                                                           !.body = body, !.db = db]]
    /\ UNCHANGED <<tenants, users, entities, employees, tokens, nextOid, createdBy, last>>

\* services.CreateTenantAndAdminUser, step 1: tenantCollection.InsertOne.
SignupInsertTenant(p) ==
    LET g == running[p]
        newTenant == [id |-> nextOid, name |-> g.body.companyName,
                      status |-> "active", enabledEntities |-> defaultEntities]
    IN  /\ g.pc = "insertTenant"
        /\ nextOid <= MaxOid
        /\ nextOid' = nextOid + 1
        /\ IF Reach(g.db, 1) # "up"
           THEN /\ running' = [running EXCEPT ![p] =
                                 [g EXCEPT !.pc = "done", !.calls = 1, !.status = 500,
                                           !.error = "failed to create tenant"]]
                /\ UNCHANGED tenants
           ELSE /\ tenants' = tenants \cup {newTenant}
                /\ running' = [running EXCEPT ![p] =
                                 [g EXCEPT !.pc = "insertUser", !.calls = 1,
                                           !.tenantId = newTenant.id]]
        /\ UNCHANGED <<users, entities, employees, tokens, createdBy, last>>

\* services.CreateTenantAndAdminUser, step 2: utils.HashPassword and
\* usersCollection.InsertOne.
SignupInsertUser(p) ==
    LET g == running[p]
        h == HashPassword(g.body.password)
        adminUser == [AdminUser(g.body, [id |-> g.tenantId], h.hash) EXCEPT !.id = nextOid]
        ins == InsertUser(adminUser, Reach(g.db, 2))
    IN  /\ g.pc = "insertUser"
        /\ IF h.err
           THEN /\ running' = [running EXCEPT ![p] =
                                 [g EXCEPT !.pc = "rollback",
                                           !.error = "failed to process user credentials"]]
                /\ UNCHANGED <<users, nextOid>>
           ELSE /\ nextOid <= MaxOid
                /\ nextOid' = nextOid + 1
                /\ users' = ins.users
                /\ running' = [running EXCEPT ![p] =
                                 IF ins.err = ""
                                 THEN [g EXCEPT !.pc = "done", !.calls = 2, !.status = 201]
                                 ELSE [g EXCEPT !.pc = "rollback", !.calls = 2,
                                                !.error =
                                                  IF ins.err = "E11000 duplicate key"
                                                  THEN ErrUsernameExists
                                                  ELSE "failed to create admin user"]]
        /\ UNCHANGED <<tenants, entities, employees, tokens, createdBy, last>>

\* services.CreateTenantAndAdminUser: the compensating
\* tenantCollection.DeleteOne(bson.M{"_id": newTenant.ID}), then the 500
\* of the handler.
SignupRollback(p) ==
    LET g == running[p]
    IN  /\ g.pc = "rollback"
        /\ tenants' = DeleteTenant(tenants, g.tenantId, Reach(g.db, g.calls + 1))
        /\ running' = [running EXCEPT ![p] =
                         [g EXCEPT !.pc = "done", !.calls = g.calls + 1, !.status = 500]]
        /\ UNCHANGED <<users, entities, employees, tokens, nextOid, createdBy, last>>

InitSignupRace ==
    /\ tenants = {}
    /\ users = {}
    /\ entities = {}
    /\ employees = {}
    /\ tokens = {}
    /\ nextOid = 1
    /\ createdBy = {}
    /\ last = Idle
    /\ running = [p \in Goroutines |-> Waiting]

NextSignupRace ==
    \/ \E p \in Goroutines : SignupAccept(p)
    \/ \E p \in Goroutines : SignupInsertTenant(p)
    \/ \E p \in Goroutines : SignupInsertUser(p)
    \/ \E p \in Goroutines : SignupRollback(p)

SpecSignupRace == InitSignupRace /\ [][NextSignupRace]_vars

(***************************************************************************)
(* SpecEntityRace: two update or delete requests on reference entities     *)
(* handled concurrently.  A request reads the tenant in the permission     *)
(* check and then makes the one store call of its service (UpdateOne,      *)
(* DeleteOne), which the store applies to a document atomically.           *)
(***************************************************************************)
RaceRoutes == {"locations", "hardware-assets"}

\* The entity of each kind that tenant Acme owns when the requests arrive.
RaceEntity ==
    [r \in RaceRoutes |->
       [coll |-> EntityRoutes[r].create, id |-> IF r = "locations" THEN 5 ELSE 6,
        tenantId |-> Hex(1), name |-> "n1"]]

EntityWaiting ==
    [pc |-> "waiting", op |-> "", route |-> "", cred |-> NoCred, id |-> "",
     body |-> NoBody, db |-> "up", status |-> 0, error |-> ""]

\* gin hands the request to a goroutine; AuthMiddleware verifies the token.
EntityAccept(p) ==
    /\ running[p].pc = "waiting"
    /\ \E op \in {"update", "del"}, route \in RaceRoutes, cred \in Creds,
          id \in {Hex(RaceEntity[r].id) : r \in RaceRoutes} \cup {AbsentId},
          body \in UpdateBodies \cup {NoBody}, db \in {"up", "lost"} :
         /\ body = NoBody <=> op = "del"
         /\ LET a == AuthMiddleware(cred)
                g == [EntityWaiting EXCEPT !.op = op, !.route = route, !.cred = cred,
                                           !.id = id, !.body = body, !.db = db]
            IN  running' = [running EXCEPT ![p] =
                              IF a.status # 200
                              THEN [g EXCEPT !.pc = "done", !.status = a.status,
                                             !.error = a.error]
                              ELSE [g EXCEPT !.pc = "permission"]]
    /\ UNCHANGED <<tenants, users, entities, employees, tokens, nextOid, createdBy, last>>

\* auth.RequireEntityAccess: the tenant is read and its list is searched.
EntityPermission(p) ==
    LET g == running[p]
        m == RequireEntityAccess(g.route, AuthMiddleware(g.cred).tenantId, Reach(g.db, 1))
    IN  /\ g.pc = "permission"
        /\ running' = [running EXCEPT ![p] =
                         IF m.status # 200
                         THEN [g EXCEPT !.pc = "done", !.status = m.status,
                                        !.error = m.error]
                         ELSE [g EXCEPT !.pc = "handler"]]
        /\ UNCHANGED <<tenants, users, entities, employees, tokens, nextOid,
                       createdBy, last>>

\* Update<Kind>Handler / Delete<Kind>Handler: the service's store call and
\* the response.
EntityStoreCall(p) ==
    LET g == running[p]
        tenantID == AuthMiddleware(g.cred).tenantId
        r == IF g.op = "update" /\ g.body.kind = "json"
             THEN UpdateEntity(EntityRoutes[g.route].update, g.id, tenantID,
                               g.body.data, Reach(g.db, 2))
             ELSE DeleteEntity(EntityRoutes[g.route].del, g.id, tenantID, Reach(g.db, 2))
    IN  /\ g.pc = "handler"
        /\ IF g.op = "update" /\ g.body.kind # "json"
           THEN /\ running' = [running EXCEPT ![p] =
                                 [g EXCEPT !.pc = "done", !.status = 400,
                                           !.error = "invalid request body"]]
                /\ UNCHANGED entities
           ELSE /\ entities' = r.entities
                /\ running' = [running EXCEPT ![p] =
                                 [g EXCEPT !.pc = "done",
                                           !.status = IF r.err = "" THEN 200 ELSE 404,
                                           !.error = r.err]]
        /\ UNCHANGED <<tenants, users, employees, tokens, nextOid, createdBy, last>>

InitEntityRace ==
    /\ tenants = SeedTenants
    /\ users = SeedUsers
    /\ entities = {RaceEntity[r] : r \in RaceRoutes}
    /\ employees = {}
    /\ tokens = {GenerateToken(Hex(u.id), u.tenantId) : u \in SeedUsers}
    /\ nextOid = 7
    /\ createdBy = {[id |-> RaceEntity[r].id, tenantId |-> Hex(1)] : r \in RaceRoutes}
    /\ last = Idle
    /\ running = [p \in Goroutines |-> EntityWaiting]

NextEntityRace ==
    \/ \E p \in Goroutines : EntityAccept(p)
    \/ \E p \in Goroutines : EntityPermission(p)
    \/ \E p \in Goroutines : EntityStoreCall(p)

SpecEntityRace == InitEntityRace /\ [][NextEntityRace]_vars

(***************************************************************************)
(* Properties.                                                             *)
(***************************************************************************)
Collections == {EntityRoutes[r].getAll : r \in EntitySlugs}
ApiEntityRoutes == EntitySlugs \cup {"employees"}
ApiRoutes == ApiEntityRoutes \cup {"users"}

\* C1: an entity that create(K, T, entity) stored and that has not been
\* deleted is returned by getByID(K, T, id), and getByID(K, T', id) answers
\* NotFound for every other tenant T'.
C1_CreateThenGetByID ==
    \A d \in entities : \A c \in createdBy :
        c.id = d.id =>
          /\ GetEntityByID(d.coll, Hex(d.id), c.tenantId, "up") = [err |-> "", result |-> {d}]
          /\ \A other \in TenantIdStrs \ {c.tenantId} :
                GetEntityByID(d.coll, Hex(d.id), other, "up").err = ErrNotFound

\* C2: listByTenant(K, A) and the employee listing of tenant A return only
\* records that tenant A created and that tenant A owns.
C2_ListReturnsOwnRecordsOnly ==
    \A t \in TenantIdStrs :
        /\ \A coll \in Collections :
             \A d \in GetEntitiesByTenant(coll, t, "up").results :
                 d.tenantId = t /\ [id |-> d.id, tenantId |-> t] \in createdBy
        /\ \A e \in GetEmployeesByTenant(t, "up").employees :
                 e.tenantId = t /\ [id |-> e.id, tenantId |-> t] \in createdBy

C8_ForbiddenWithoutModule ==
    [][(/\ last' # Idle
        /\ last'.route \in ApiEntityRoutes
        /\ last'.auth = "valid"
        /\ last'.db # "down"
        /\ \E t \in tenants : /\ Hex(t.id) = last'.tenantId
                              /\ last'.route \notin Range(t.enabledEntities))
       => /\ last'.status = 403
          /\ last'.handler = "none"
          /\ UNCHANGED <<tenants, users, entities, employees>>]_vars

C8_Witness ==
    /\ last # Idle
    /\ last.route \in EntitySlugs
    /\ last.auth = "valid"
    /\ last.status = 403
    /\ \E t \in tenants : /\ Hex(t.id) = last.tenantId
                          /\ last.route \notin Range(t.enabledEntities)
    /\ entities # {}

\* C9: a request to a route under /api/v1 without an Authorization header,
\* with a header that is not "Bearer <token>", or with an invalid or expired
\* token is answered 401; no handler runs and nothing in the store changes.
C9_UnauthorizedWithoutValidToken ==
    [][(/\ last' # Idle
        /\ last'.route \in ApiRoutes
        /\ last'.auth \in {"missing", "format", "invalid", "expired"})
       => /\ last'.status = 401
          /\ last'.handler = "none"
          /\ UNCHANGED <<tenants, users, entities, employees, tokens, nextOid>>]_vars

C9_Witness ==
    /\ last # Idle
    /\ last.route \in ApiRoutes
    /\ last.auth = "expired"
    /\ last.status = 401
    /\ entities # {}

\* The tenant of the exchange being answered.
TenantOfLast == CHOOSE t \in tenants : Hex(t.id) = last.tenantId

\* The employee-creation exchange being answered got as far as the
\* missing-field check of the handler.
EmployeeValidated ==
    /\ last # Idle
    /\ last.op = "create"
    /\ last.route = "employees"
    /\ last.handler = "CreateEmployee"
    /\ last.body.kind = "json"

\* C4: for each of the ten reference kinds, a payload that leaves the
\* kind's reference field out (or sends it as "") is rejected with that
\* field named exactly when the slug that gates the kind's routes, the one
\* signup puts in the enabled list, is in the tenant's enabled list; so a
\* signup tenant cannot omit any of the ten fields.
C4_MandatoryIffModuleEnabled ==
    EmployeeValidated =>
        \A r \in EntitySlugs :
            IsMissing(last.body.data, RefFieldOf[r]) =>
                (r \in Range(TenantOfLast.enabledEntities)
                   <=> (last.status = 400 /\ RefFieldOf[r] \in Range(last.missing)))

\* C5: when an employee payload lacks several of the fields the handler
\* holds mandatory for the tenant (firstName, lastName, email and the field
\* its module-to-field map gives for each enabled module), the one 400
\* response lists exactly all of them, each once; when it lacks none, no
\* missing-field response is sent.
C5_AllMissingFieldsListed ==
    EmployeeValidated =>
        LET mandatory == Range(BasicFields) \cup
                         {requiredFieldsMap[e] :
                            e \in Range(TenantOfLast.enabledEntities)
                                    \cap DOMAIN requiredFieldsMap}
            absent == {f \in mandatory : IsMissing(last.body.data, f)}
        IN  IF absent # {}
            THEN /\ last.status = 400
                 /\ last.error = "Missing required fields for your plan"
                 /\ Range(last.missing) = absent
                 /\ Len(last.missing) = Cardinality(absent)
                 /\ last.out = {}
            ELSE /\ last.missing = <<>>
                 /\ last.error # "Missing required fields for your plan"

C5_Witness ==
    /\ EmployeeValidated
    /\ TenantOfLast.enabledEntities = <<"employees", "departments", "locations", "teams">>
    /\ last.status = 400
    /\ last.missing = <<"departmentId", "locationId">>
    /\ employees = {}

\* C6: a signup answered 201 adds exactly one tenant and exactly one user;
\* the user has role admin, the submitted username and the new tenant's
\* identifier as its tenantId, the response names both, and no other tenant
\* or user record is added, removed or changed.
C6_SignupAddsOneTenantOneAdmin ==
    [][(/\ last' # Idle
        /\ last'.op = "signup"
        /\ last'.status = 201)
       => \E t \in tenants' \ tenants, u \in users' \ users :
            /\ tenants' = tenants \cup {t}
            /\ users' = users \cup {u}
            /\ \A t0 \in tenants : t0.id # t.id
            /\ \A u0 \in users : u0.id # u.id /\ u0.username # u.username
            /\ t.name = last'.body.companyName
            /\ u.username = last'.body.username
            /\ u.role = "admin"
            /\ u.tenantId = Hex(t.id)
            /\ last'.out = {[tenantId |-> t.id, adminUserId |-> u.id]}]_vars

C6_Witness ==
    /\ last # Idle
    /\ last.op = "signup"
    /\ last.status = 201
    /\ Cardinality(tenants) = 2
    /\ Cardinality(users) = 2

\* C7: when the tenant insert of a signup succeeded, its second step (the
\* password hash or the user insert) failed and the compensating delete
\* reached the store, the tenants collection is as it was before the
\* signup, no user was added, and the caller gets one failure.
C7_FailedSignupLeavesNoTenant ==
    [][(/\ last' # Idle
        /\ last'.op = "signup"
        /\ last'.error # "binding: required"
        /\ Reach(last'.db, 1) = "up"
        /\ LET hashFails == last'.body.password = PwTooLong
               insertFails == \/ Reach(last'.db, 2) # "up"
                              \/ \E u \in users : u.username = last'.body.username
           IN  \/ hashFails /\ Reach(last'.db, 2) = "up"
               \/ ~hashFails /\ insertFails /\ Reach(last'.db, 3) = "up")
       => /\ tenants' = tenants
          /\ users' = users
          /\ last'.status = 500
          /\ last'.error # ""
          /\ last'.out = {}]_vars

C7_Witness ==
    /\ last # Idle
    /\ last.op = "signup"
    /\ last.status = 500
    /\ last.error = ErrUsernameExists
    /\ Cardinality(tenants) = 1
    /\ \A t \in tenants : \E u \in users : u.tenantId = Hex(t.id)

\* C10: POST /api/v1/users adds a user only when the user the token names
\* exists with role admin, and the new user's tenantId is the tenant of the
\* token, which is the creator's tenant, whatever the body says; a member's
\* request is answered 403 and leaves the users as they were.
C10_OnlyAdminsCreateUsersInOwnTenant ==
    [][(/\ last' # Idle
        /\ last'.op = "create"
        /\ last'.route = "users")
       => /\ users' # users =>
               /\ last'.auth = "valid"
               /\ \E creator \in users, u \in users' \ users :
                     /\ Hex(creator.id) = last'.userId
                     /\ creator.role = "admin"
                     /\ users' = users \cup {u}
                     /\ u.tenantId = last'.tenantId
                     /\ u.tenantId = creator.tenantId
          /\ (/\ last'.auth = "valid"
              /\ \E m \in users : Hex(m.id) = last'.userId /\ m.role = "member")
               => /\ last'.status = 403
                  /\ users' = users]_vars

C10_Witness ==
    /\ last # Idle
    /\ last.op = "create"
    /\ last.route = "users"
    /\ last.status = 201
    /\ last.body.tenantId \in TenantIdStrs \ {last.tenantId}
    /\ \E u \in users : u.username = "carol" /\ u.tenantId = last.tenantId

\* The documents the filter {_id, tenantId} of the exchange matches in the
\* collection its handler works on.
Matched(docs, x) ==
    {d \in docs : d.id = ObjectIDFromHex(x.id).id /\ d.tenantId = x.tenantId}

EntitiesOf(collectionName) == {d \in entities : d.coll = collectionName}

\* C11: an update with a well-formed id that reaches the store and matches
\* no document of the caller's tenant (no such id, or the id is another
\* tenant's) is answered with the not-found error and leaves every
\* document of every collection as it was.
C11_UpdateZeroMatchNotFound ==
    [][(/\ last' # Idle
        /\ last'.op = "update"
        /\ last'.route \in ApiEntityRoutes
        /\ last'.handler # "none"
        /\ last'.body.kind = "json"
        /\ Reach(last'.db, 2) = "up"
        /\ ~ObjectIDFromHex(last'.id).err
        /\ IF last'.route = "employees"
           THEN Matched(employees, last') = {}
           ELSE Matched(EntitiesOf(last'.coll), last') = {})
       => /\ last'.status = 404
          /\ last'.error = IF last'.route = "employees"
                           THEN ErrEmployeeNotFound ELSE ErrNotFound
          /\ UNCHANGED <<tenants, users, entities, employees>>]_vars

C11_Witness ==
    /\ last # Idle
    /\ last.op = "update"
    /\ last.route \in EntitySlugs
    /\ last.status = 404
    /\ last.error = ErrNotFound
    /\ \E d \in EntitiesOf(last.coll) :
          Hex(d.id) = last.id /\ d.tenantId # last.tenantId

\* A delete call of the entity service or the employee service that
\* reached the store with a well-formed id.
DeleteCalled(x) ==
    /\ x # Idle
    /\ x.op = "del"
    /\ x.route \in ApiEntityRoutes
    /\ x.handler # "none"
    /\ Reach(x.db, 2) = "up"
    /\ ~ObjectIDFromHex(x.id).err

StoredIds ==
    {t.id : t \in tenants} \cup {u.id : u \in users}
      \cup {d.id : d \in entities} \cup {e.id : e \in employees}

\* C13: a create request of a reference-entity route answered 201 has added
\* exactly one document, in the handler's collection, whose tenantId is the
\* tenant of the token and whose id no stored document had, whatever
\* tenantId and id the body carried; the response is that document.
C13_CreateForcesTenantAndFreshId ==
    [][(/\ last' # Idle
        /\ last'.op = "create"
        /\ last'.route \in EntitySlugs
        /\ last'.status = 201)
       => \E d \in entities' \ entities :
            /\ entities' = entities \cup {d}
            /\ d.coll = last'.coll
            /\ d.tenantId = last'.tenantId
            /\ d.name = last'.body.name
            /\ d.id # NilObjectID
            /\ d.id \notin StoredIds
            /\ last'.out = {d}]_vars

C13_Witness ==
    /\ last # Idle
    /\ last.op = "create"
    /\ last.route \in EntitySlugs
    /\ last.status = 201
    /\ last.body.tenantId \in TenantIdStrs \ {last.tenantId}
    /\ last.body.id # NilObjectID
    /\ \E d \in entities : last.out = {d} /\ d.id # last.body.id

\* C14: a getByID of a reference-entity route that does not return an
\* entity gives the caller the same response (status and body) whether the
\* id is malformed, matches nothing, or is the id of another tenant's
\* entity: the response is the one an id that matches nothing gets.
C14_GetByIDFailuresIndistinguishable ==
    (/\ last # Idle
     /\ last.op = "getByID"
     /\ last.route \in EntitySlugs
     /\ last.handler # "none"
     /\ Reach(last.db, 2) = "up"
     /\ last.status # 200)
    => [status |-> last.status, error |-> last.error, out |-> last.out]
         = GetByIDResponse(last.route, AbsentId, last.tenantId, "up")

\* C15: for a tenant whose enabled list names no module of a reference
\* field, a payload of non-empty firstName, lastName and email and nothing
\* else, handled with the store reachable, is answered 201 and stores one
\* employee with these names, phoneNumber "", onboardingDate the time of
\* handling, every reference field the zero identifier, and the tenantId of
\* the token.
C15_BasicPayloadDefaults ==
    (/\ EmployeeValidated
     /\ last.db = "up"
     /\ Range(TenantOfLast.enabledEntities)
          \cap (EntitySlugs \cup DOMAIN requiredFieldsMap) = {}
     /\ DOMAIN last.body.data = Range(BasicFields)
     /\ \A f \in Range(BasicFields) :
           last.body.data[f].t = "string" /\ last.body.data[f].s # "")
    => /\ last.status = 201
       /\ \E e \in employees :
            /\ employees = {e}
            /\ last.out = {e}
            /\ e.id # NilObjectID
            /\ e.tenantId = last.tenantId
            /\ \A f \in Range(BasicFields) : e[f] = last.body.data[f].s
            /\ e.phoneNumber = ""
            /\ e.onboardingDate = Now
            /\ \A f \in Range(RefFieldOrder) : e[f] = NilObjectID

C15_Witness ==
    /\ EmployeeValidated
    /\ TenantOfLast.enabledEntities = <<"employees">>
    /\ last.body.data = BasicPayload
    /\ last.status = 201
    /\ Cardinality(employees) = 1

\* The tenant record the token names can be loaded at the first store call
\* of a request.
TenantLoaded(tenantIDStr, db) ==
    db = "up" /\ \E t \in tenants : Hex(t.id) = tenantIDStr

SlugEnabled(tenantIDStr, slug) ==
    \E t \in tenants : Hex(t.id) = tenantIDStr /\ slug \in Range(t.enabledEntities)

\* C16: a request with a valid token to an entity-scoped route is answered
\* 500 by the permission check whenever the tenant record of the token
\* cannot be loaded, and 403 exactly when the record was loaded and its
\* list lacks the slug; in both cases no handler runs and nothing changes,
\* and otherwise the handler is reached.  The check answers 500 as well for
\* a token that names no tenant or a malformed tenant id.
C16_InternalErrorVersusForbidden ==
    [][(/\ last' # Idle
        /\ last'.route \in ApiEntityRoutes
        /\ last'.auth = "valid")
       => LET db == Reach(last'.db, 1)
              loaded == TenantLoaded(last'.tenantId, db)
              enabled == SlugEnabled(last'.tenantId, last'.route)
          IN  /\ ~loaded => last'.status = 500
              /\ last'.status = 403 <=> loaded /\ ~enabled
              /\ last'.handler = "none" <=> ~(loaded /\ enabled)
              /\ last'.handler = "none"
                   => UNCHANGED <<tenants, users, entities, employees>>
              /\ \A tid \in {AbsentId} \cup MalformedIds :
                    /\ ~TenantLoaded(tid, db)
                    /\ RequireEntityAccess(last'.route, tid, db).status = 500]_vars

C16_Witness ==
    /\ last # Idle
    /\ last.route \in ApiEntityRoutes
    /\ last.auth = "valid"
    /\ last.db = "down"
    /\ last.status = 500
    /\ last.error = "Could not verify tenant permissions"
    /\ last.handler = "none"
    /\ ~SlugEnabled(last.tenantId, last.route)

\* C17: an update answered 200 has changed one document, the one matching
\* the id and the tenant of the request: each of its fields the payload
\* names has the payload's value, each other field has kept its value, and
\* every other document of every collection is as before.
C17_UpdateChangesSuppliedFieldsOnly ==
    [][(/\ last' # Idle
        /\ last'.op = "update"
        /\ last'.route \in ApiEntityRoutes
        /\ last'.status = 200)
       => LET emp == last'.route = "employees"
              docs == IF emp THEN employees ELSE EntitiesOf(last'.coll)
              docsAfter == IF emp THEN employees' ELSE entities'
              all == IF emp THEN employees ELSE entities
          IN  /\ \E d \in Matched(docs, last') :
                  /\ Matched(docs, last') = {d}
                  /\ \E e \in docsAfter :
                        /\ docsAfter = (all \ {d}) \cup {e}
                        /\ DOMAIN e = DOMAIN d
                        /\ \A f \in DOMAIN d :
                              e[f] = IF f \in DOMAIN last'.body.data
                                     THEN last'.body.data[f] ELSE d[f]
              /\ IF emp THEN entities' = entities ELSE employees' = employees
              /\ UNCHANGED <<tenants, users>>]_vars

C17_Witness ==
    /\ last # Idle
    /\ last.op = "update"
    /\ last.route \in EntitySlugs
    /\ last.status = 200
    /\ DOMAIN last.body.data = {"name"}
    /\ \E d \in entities :
          /\ Hex(d.id) = last.id
          /\ d.name = last.body.data["name"]
          /\ d.tenantId = last.tenantId

\* C18: a list request of a reference-entity route answered 200 returns
\* exactly the stored documents of the handler's collection whose tenantId
\* is the tenant of the token, and its body is never the null of a nil
\* slice, also when there is no such document.
C18_ListExactAndNeverNil ==
    (/\ last # Idle
     /\ last.op = "getAll"
     /\ last.route \in EntitySlugs
     /\ last.status = 200)
    => /\ last.out = {d \in entities : d.coll = last.coll /\ d.tenantId = last.tenantId}
       /\ ~last.null

C18_Witness ==
    /\ last # Idle
    /\ last.op = "getAll"
    /\ last.route \in EntitySlugs
    /\ last.status = 200
    /\ last.out = {}
    /\ ~last.null
    /\ \E d \in entities : d.coll = last.coll /\ d.tenantId # last.tenantId

\* The user insert of the account request x was attempted with the store
\* reachable: binding, role check and password hash passed.
UserInsertReached(x) ==
    /\ x # Idle
    /\ \/ x.op = "signup"
       \/ x.op = "create" /\ x.route = "users" /\ x.auth = "valid" /\ x.status # 403
    /\ x.body.kind = "json"
    /\ x.error # "binding: required"
    /\ x.op = "create" => x.body.role \in {"admin", "member"}
    /\ x.body.password # PwTooLong
    /\ Reach(x.db, 1) = "up"
    /\ Reach(x.db, 2) = "up"

CoercionErrors ==
    {"onboardingDate must be a string", "Invalid onboarding date format"}
    \cup {"Invalid format for " \o RefFieldOrder[i] : i \in DOMAIN RefFieldOrder}

\* C20: in employee creation a payload with missing fields is answered by
\* the missing-field response whatever the types of its other values, and a
\* payload that passes the missing-field check but holds a value the
\* coercion cannot take (a non-string firstName, lastName, email,
\* phoneNumber or reference field, a malformed identifier or date) is
\* answered 400 with a text naming the field, the handler does not crash,
\* and no employee is stored.
C20_CoercionFailureIsValidationError ==
    [][(/\ last' # Idle
        /\ last'.op = "create"
        /\ last'.route = "employees"
        /\ last'.handler = "CreateEmployee"
        /\ last'.body.kind = "json")
       => LET t == CHOOSE t \in tenants : Hex(t.id) = last'.tenantId
              missingFields == MissingFields(last'.body.data, t.enabledEntities)
          IN  /\ Len(missingFields) > 0
                   => /\ last'.status = 400
                      /\ last'.error = "Missing required fields for your plan"
                      /\ employees' = employees
              /\ (Len(missingFields) = 0 /\ Coerce(last'.body.data) # "")
                   => /\ last'.status = 400
                      /\ last'.error \in CoercionErrors
                      /\ employees' = employees]_vars

\* The collection that holds the entities of the kind served under a
\* resource path: the one its create handler stores into.
KindCollection == [r \in EntitySlugs |-> EntityRoutes[r].create]

\* C21: a request on any of the five routes of kind K, the DELETE route
\* included, leaves every collection other than K's own unchanged.
C21_RoutesActOnOwnKindOnly ==
    [][(/\ last' # Idle
        /\ last'.route \in EntitySlugs
        /\ last'.op \in {"create", "getAll", "getByID", "update", "del"})
       => {d \in entities' : d.coll # KindCollection[last'.route]}
            = {d \in entities : d.coll # KindCollection[last'.route]}]_vars

\* C22: an employee-creation request answered with anything but 201 leaves
\* tenants, users, entities and employees unchanged, and an employee is
\* inserted only when the request is answered 201, after the tenant record
\* was loaded, no mandatory field was missing and every coercion passed.
C22_FailedEmployeeCreationChangesNothing ==
    [][(/\ last' # Idle
        /\ last'.op = "create"
        /\ last'.route = "employees")
       => /\ last'.status # 201
               => UNCHANGED <<tenants, users, entities, employees>>
          /\ employees' # employees
               => /\ last'.status = 201
                  /\ last'.body.kind = "json"
                  /\ Reach(last'.db, 2) = "up"
                  /\ \E t \in tenants :
                       /\ Hex(t.id) = last'.tenantId
                       /\ MissingFields(last'.body.data, t.enabledEntities) = <<>>
                  /\ \A i \in DOMAIN CoerceOrder :
                       CoerceField(last'.body.data, CoerceOrder[i]) = ""
                  /\ UNCHANGED <<tenants, users, entities>>]_vars

C22_Witness ==
    /\ last # Idle
    /\ last.op = "create"
    /\ last.route = "employees"
    /\ last.status = 400
    /\ last.error = "Invalid format for locationId"
    /\ employees # {}

\* C23: when the store call of an employee update or delete fails, the
\* handler answers with an error response that carries an error text: it
\* does not crash, and it does not answer 200.
C23_EmployeeStoreFailureIsReported ==
    (/\ last # Idle
     /\ last.route = "employees"
     /\ last.op \in {"update", "del"}
     /\ last.handler \in {"UpdateEmployee", "DeleteEmployee"}
     /\ last.op = "update" => last.body.kind = "json"
     /\ Reach(last.db, 2) = "down")
    => /\ last.status \in {404, 500}
       /\ last.error \notin {"", "panic"}

\* The request of the exchange x reached the store call of a getByID,
\* update or delete handler of a reference entity with a well-formed id,
\* and the store could not be reached.
EntityStoreCallFailed(x) ==
    /\ x # Idle
    /\ x.route \in EntitySlugs
    /\ x.op \in {"getByID", "update", "del"}
    /\ x.handler \in {"GetByID", "Update", "Delete"}
    /\ x.op = "update" => x.body.kind = "json"
    /\ ~ObjectIDFromHex(x.id).err
    /\ Reach(x.db, 2) = "down"

\* C24: a getByID, update or delete of a reference entity whose store call
\* fails is answered as an internal error (500), and the answer differs
\* from the one the same route gives when no document matched.
C24_StoreFailureIsInternalError ==
    EntityStoreCallFailed(last)
    => /\ last.status = 500
       /\ <<last.status, last.error>>
            # (IF last.op = "getByID"
               THEN LET r == GetByIDResponse(last.route, AbsentId, last.tenantId, "up")
                    IN  <<r.status, r.error>>
               ELSE <<404, ErrNotFound>>)

\* Both signups have returned, they named the same username, the store was
\* reachable for both and both passwords could be hashed.
SignupRaceOver ==
    /\ \A p \in Goroutines :
         /\ running[p].pc = "done"
         /\ running[p].db = "up"
         /\ running[p].body.password # PwTooLong
    /\ running[1].body.username = running[2].body.username

\* C25: two concurrent signups with one username never both succeed, and
\* when the store is reachable and both have returned, in whatever order
\* their store calls ran, exactly one succeeded, there is exactly one user
\* with the username, and the only tenant in the store is the one that
\* user is linked to, the one the successful request inserted.
C25_ConcurrentSignupsOneWinner ==
    /\ (/\ \A p \in Goroutines : running[p].pc = "done"
        /\ running[1].body.username = running[2].body.username)
       => \E p \in Goroutines : running[p].status # 201
    /\ SignupRaceOver
       => \E w \in Goroutines :
            /\ running[w].status = 201
            /\ \A p \in Goroutines \ {w} :
                 running[p].status = 500 /\ running[p].error = ErrUsernameExists
            /\ \E u \in users :
                 /\ {v \in users : v.username = running[w].body.username} = {u}
                 /\ u.tenantId = Hex(running[w].tenantId)
            /\ {t.id : t \in tenants} = {running[w].tenantId}

C25_Witness ==
    /\ SignupRaceOver
    /\ running[2].status = 201
    /\ running[1].tenantId = 1
    /\ running[1].error = ErrUsernameExists

\* Both requests have returned; they came with valid tokens of the tenant
\* that owned the entity of the route's kind, named that entity on the same
\* route, and the store was reachable.
EntityRaceOver ==
    /\ \A p \in Goroutines :
         /\ running[p].pc = "done"
         /\ running[p].db = "up"
         /\ AuthMiddleware(running[p].cred).status = 200
         /\ AuthMiddleware(running[p].cred).tenantId = Hex(1)
         /\ running[p].id = Hex(RaceEntity[running[p].route].id)
         /\ running[p].op = "update" => running[p].body.kind = "json"
    /\ running[1].route = running[2].route

\* C26: of two concurrent deletes of one existing entity by its tenant,
\* exactly one is answered success and the other not-found; of an update
\* and a delete that run concurrently, the update is answered success or
\* not-found, and after both have returned the store holds no document
\* with the entity's id.
C26_ConcurrentDeleteAndUpdate ==
    EntityRaceOver
    => /\ (\A p \in Goroutines : running[p].op = "del")
            => \E w \in Goroutines :
                 /\ running[w].status = 200
                 /\ \A p \in Goroutines \ {w} :
                      running[p].status = 404 /\ running[p].error = ErrNotFound
       /\ (\E p, q \in Goroutines : running[p].op = "update" /\ running[q].op = "del")
            => /\ \A p \in Goroutines :
                    running[p].op = "update" => running[p].status \in {200, 404}
               /\ ~\E d \in entities : d.id = RaceEntity[running[1].route].id

\* C27: right after a signup answered 201, the enabled list of the tenant it
\* created holds the slug of every entity-scoped route of the router
\* (employees and the ten reference resources), and the permission check
\* lets a user of that tenant through on each of them.
C27_SignupEnablesEveryRoute ==
    (/\ last # Idle
     /\ last.op = "signup"
     /\ last.status = 201)
    => \A rec \in last.out :
         /\ \E t \in tenants :
              /\ t.id = rec.tenantId
              /\ ApiEntityRoutes \subseteq Range(t.enabledEntities)
         /\ \A r \in ApiEntityRoutes :
              RequireEntityAccess(r, Hex(rec.tenantId), "up").status = 200

C27_Witness ==
    /\ last # Idle
    /\ last.op = "signup"
    /\ last.status = 201
    /\ \E rec \in last.out : \E t \in tenants :
         t.id = rec.tenantId /\ Len(t.enabledEntities) = 11

\* The tenant of the exchange has the module of resource r under neither of
\* its names: the slug of the router and the key of the handler's field map.
ModuleOff(r) ==
    /\ r \notin Range(TenantOfLast.enabledEntities)
    /\ \A k \in DOMAIN requiredFieldsMap :
         requiredFieldsMap[k] = RefFieldOf[r] => k \notin Range(TenantOfLast.enabledEntities)

\* The employee creation being answered passed the missing-field check, the
\* store was reachable, and every field but the reference field of
\* resource r passes its coercion.
OnlyFieldInQuestion(r) ==
    /\ EmployeeValidated
    /\ last.db = "up"
    /\ ModuleOff(r)
    /\ MissingFields(last.body.data, TenantOfLast.enabledEntities) = <<>>
    /\ \A i \in DOMAIN CoerceOrder :
         CoerceOrder[i] # RefFieldOf[r] => CoerceField(last.body.data, CoerceOrder[i]) = ""

\* C28 as stated: for a tenant without module M, a payload whose reference
\* field for M is absent or is the empty string, and that is complete
\* otherwise, is accepted and the stored employee has the zero identifier
\* in that field.
C28_OptionalFieldAbsentOrEmpty ==
    \A r \in EntitySlugs :
        (OnlyFieldInQuestion(r) /\ IsMissing(last.body.data, RefFieldOf[r]))
        => /\ last.status = 201
           /\ \A e \in last.out : e[RefFieldOf[r]] = NilObjectID

\* C28, amended: for a tenant without module M, a payload that leaves M's
\* reference field out, and that is complete otherwise, is accepted and the
\* stored employee has the zero identifier in that field; a payload that
\* sends the field as the empty string is rejected with 400 "Invalid format
\* for <field>" and nothing is stored.
C28_OptionalFieldAbsent ==
    \A r \in EntitySlugs :
        OnlyFieldInQuestion(r)
        => /\ RefFieldOf[r] \notin DOMAIN last.body.data
                => /\ last.status = 201
                   /\ last.out # {}
                   /\ last.out \subseteq employees
                   /\ \A e \in last.out : e[RefFieldOf[r]] = NilObjectID
           /\ (/\ RefFieldOf[r] \in DOMAIN last.body.data
               /\ last.body.data[RefFieldOf[r]] = JStr(""))
                => /\ last.status = 400
                   /\ last.error = "Invalid format for " \o RefFieldOf[r]
                   /\ last.out = {}

C28_Witness ==
    /\ EmployeeValidated
    /\ last.status = 201
    /\ OnlyFieldInQuestion("teams")
    /\ "teamId" \notin DOMAIN last.body.data
    /\ \E e \in employees : e["teamId"] = NilObjectID

\* The login being answered had a body with both keys.
LoginAttempt ==
    /\ last # Idle
    /\ last.op = "login"
    /\ last.body.kind = "json"
    /\ last.body.username # ""
    /\ last.body.password # ""

\* C29: a login is answered 200 only when a user with the username exists
\* and the password verifies against its stored hash, and with the store
\* reachable it is answered 200 whenever that is so; a login with a
\* username that does not exist and a login with an existing username and a
\* wrong password get the same response, 401 "invalid username or
\* password" with no token.
C29_LoginFailuresIndistinguishable ==
    LoginAttempt
    => LET verifies == \E u \in users :
                          /\ u.username = last.body.username
                          /\ CheckPasswordHash(last.body.password, u.password)
       IN  /\ last.status = 200 => verifies
           /\ (verifies /\ last.db = "up") => last.status = 200
           /\ (~verifies /\ last.db = "up")
                => /\ last.status = 401
                   /\ last.error = ErrLogin
                   /\ last.out = {}

C29_Witness ==
    /\ LoginAttempt
    /\ last.db = "up"
    /\ last.status = 401
    /\ last.error = ErrLogin
    /\ \E u \in users :
         /\ u.username = last.body.username
         /\ ~CheckPasswordHash(last.body.password, u.password)
    /\ \E v \in users : v.username # last.body.username

\* C30: a stored user keeps its tenant; every token login has issued names
\* a stored user and the tenantId stored on that user, the token a login
\* returns being the one of the user whose name was given; and the tenant a
\* protected handler works with is the tenantId stored on the user of the
\* verified token, so a request of a user created under tenant T is never
\* scoped to another tenant.
C30_TokenCarriesUsersTenant ==
    [][/\ \A u \in users : u \in users'
       /\ \A tok \in tokens' :
            \E u \in users' : Hex(u.id) = tok.userId /\ u.tenantId = tok.tenantId
       /\ (last' # Idle /\ last'.op = "login" /\ last'.status = 200)
            => \E u \in users :
                 /\ u.username = last'.body.username
                 /\ last'.out = {[userId |-> Hex(u.id), tenantId |-> u.tenantId]}
                 /\ tokens' = tokens \cup last'.out
       /\ (last' # Idle /\ last'.route = "users" /\ last'.auth = "valid")
            => \E u \in users :
                 /\ Hex(u.id) = last'.userId
                 /\ u.tenantId = last'.tenantId
                 /\ \A n \in users' \ users : n.tenantId = u.tenantId]_vars

C30_Witness ==
    /\ last # Idle
    /\ last.route = "users"
    /\ last.op = "getAll"
    /\ last.auth = "valid"
    /\ last.status = 200
    /\ Cardinality(tenants) = 2
    /\ \E u \in users :
         /\ Hex(u.id) = last.userId
         /\ u.role = "member"
         /\ u.tenantId = last.tenantId
====
